---- MODULE Spec2Model ----
(***************************************************************************)
(* A state-machine model of the "Mir Yakoba" blog platform:                *)
(*   - the login-code / session service (src/services/auth.py and the     *)
(*     /api/v1/auth endpoints),                                            *)
(*   - the visibility-tiered post queries (src/services/post.py and the    *)
(*     public web routes),                                                 *)
(*   - the Telegram bot's conversational state machine                     *)
(*     (src/bot/handlers/posts.py, src/bot/handlers/auth.py).              *)
(* Each subsystem has its own specification (SpecAuth, SpecSession,        *)
(* SpecPosts, SpecBot, ...) over the shared variables; a specification    *)
(* leaves the variables of the other subsystems unchanged.                 *)
(***************************************************************************)
EXTENDS Integers, Sequences, FiniteSets, TLC

VARIABLES
    now,        \* the wall clock (datetime.now(timezone.utc)), in minutes
    users,      \* table users: set of rows
    authCodes,  \* table auth_codes: sequence of rows in insertion order
    sessions,   \* table sessions: set of rows
    issued,     \* history: issued[t] is the user id token number t was generated for
    posts,      \* table posts: set of rows
    postCount,  \* number of posts rows created so far (the next row's id - 1)
    fsm,        \* aiogram FSM storage: chat -> state
    fsmData,    \* aiogram FSM storage: chat -> data dict
    media,      \* table media: sequence of rows in insertion order
    comments,   \* table comments: set of rows
    disk,       \* the upload directory: the set of file paths written
    inflight,   \* requests being handled concurrently: what each has read
    outbox,     \* the post notifications handed to bot.send_message
    lastOp      \* history variable: the last handled request and its answer

vars == <<now, users, authCodes, sessions, issued, posts, postCount, fsm,
          fsmData, media, comments, disk, inflight, outbox, lastOp>>

\* The variables of the comment service, of the upload directory and of
\* the concurrent requests; the specifications that do not use them leave
\* them as they start.
rest == <<comments, disk, inflight>>

InitRest ==
    /\ comments = {}
    /\ disk = {}
    /\ inflight = <<>>
    /\ outbox = {}

(***************************************************************************)
(* Bounds of the model.                                                    *)
(***************************************************************************)
MaxTime == 5
MaxCodes == 2
MaxSessions == 2
MaxPosts == 2
MaxBotPosts == 1
MaxMedia == 1
MaxComments == 2

TelegramIds == {1, 2}

(***************************************************************************)
(* Program constants.                                                      *)
(***************************************************************************)
auth_code_expire_minutes == 5
session_expire_days == 30
CodeLength == 8
MinutesPerDay == 1440

None == [none |-> TRUE]

\* An empty dict (the data of a chat that stored nothing).
EmptyData == [k \in {} |-> None]

(***************************************************************************)
(* Strings.  A string is a sequence of one-character strings; str.strip()  *)
(* and str.upper() are computed on the characters.                         *)
(***************************************************************************)
UpperChar(ch) ==
    CASE ch = "a" -> "A"
      [] ch = "b" -> "B"
      [] OTHER -> ch

LowerChar(ch) ==
    CASE ch = "A" -> "a"
      [] ch = "B" -> "b"
      [] OTHER -> ch

Upper(s) == [i \in DOMAIN s |-> UpperChar(s[i])]

Lower(s) == [i \in DOMAIN s |-> LowerChar(s[i])]

RECURSIVE LStrip(_)
LStrip(s) ==
    IF s # <<>> /\ Head(s) = " " THEN LStrip(Tail(s)) ELSE s

RECURSIVE RStrip(_)
RStrip(s) ==
    IF s # <<>> /\ s[Len(s)] = " " THEN RStrip(SubSeq(s, 1, Len(s) - 1)) ELSE s

Strip(s) == RStrip(LStrip(s))

(***************************************************************************)
(* Auth codes and session tokens.                                          *)
(***************************************************************************)
\* The part of generate_auth_code's alphabet the model draws from.
CodeAlphabet == {"A", "B"}

\* generate_auth_code: 8 characters of the alphabet, drawn at random.  The
\* model draws among the codes made of one repeated character, so the same
\* string can be drawn again (the table has no uniqueness constraint on it).
GeneratedCodes == {[i \in 1..CodeLength |-> ch] : ch \in CodeAlphabet}

\* What a client may type: the code, in lower case, or padded with blanks.
InputCodes ==
    UNION {{c, Lower(c), <<" ">> \o c \o <<" ">>} : c \in GeneratedCodes}

Tokens == 1..(MaxSessions + 1)

\* hash_token: sha256, modelled as an injective map into a disjoint range
\* (collision resistance), never the identity.
hash_token(t) == 1000 + ((t * 7) % 101)

normalize_code(code) == Upper(Strip(code))

get_user_by_telegram_id(tg) == {u \in users : u.telegram_id = tg}

get_user_by_id(id) == {u \in users : u.id = id}

\* AuthService.create_user: a new row with default columns.
NewUser(tg, name) ==
    [id |-> Cardinality(users) + 1, telegram_id |-> tg, display_name |-> name,
     access_level |-> 1, is_admin |-> FALSE, is_active |-> TRUE,
     last_login |-> 0]

\* f"User_{telegram_id}"
DefaultName(tg) == <<"U", "s", "e", "r", "_", IF tg = 1 THEN "1" ELSE "2">>

\* The name Telegram reports for the account (message.from_user.full_name).
FullName(tg) == IF tg = 1 THEN <<"A", "n", "n">> ELSE <<"B", "o", "b">>

\* A create_auth_code that forgets to invalidate the earlier codes.
InvalidateCodes_Nothing(rows, tg) == rows

\* create_auth_code's UPDATE: every unused code of telegram_id becomes used.
InvalidateCodes(rows, tg) ==
    [i \in DOMAIN rows |->
        IF rows[i].telegram_id = tg /\ ~rows[i].used
        THEN [rows[i] EXCEPT !.used = TRUE]
        ELSE rows[i]]

NewAuthCode(tg, code) ==
    [code |-> code, telegram_id |-> tg, created_at |-> now,
     expires_at |-> now + auth_code_expire_minutes, used |-> FALSE]

\* AuthService.create_auth_code: the table after the call.
create_auth_code(rows, tg, code) ==
    Append(InvalidateCodes(rows, tg), NewAuthCode(tg, code))

\* A verify_auth_code whose SELECT forgets the used == False condition.
SelectAuthCode_IgnoringUsed(tg, ncode) ==
    {i \in DOMAIN authCodes :
        /\ authCodes[i].telegram_id = tg
        /\ authCodes[i].code = ncode
        /\ authCodes[i].expires_at > now}

\* verify_auth_code's SELECT.
SelectAuthCode(tg, ncode) ==
    {i \in DOMAIN authCodes :
        /\ authCodes[i].telegram_id = tg
        /\ authCodes[i].code = ncode
        /\ authCodes[i].expires_at > now
        /\ ~authCodes[i].used}

\* A verify_by_code_only that accepts a code at the instant it expires.
SelectAuthCodeByCode_ExpiryInclusive(ncode) ==
    {i \in DOMAIN authCodes :
        /\ authCodes[i].code = ncode
        /\ authCodes[i].expires_at >= now
        /\ ~authCodes[i].used}

\* verify_by_code_only's SELECT.
SelectAuthCodeByCode(ncode) ==
    {i \in DOMAIN authCodes :
        /\ authCodes[i].code = ncode
        /\ authCodes[i].expires_at > now
        /\ ~authCodes[i].used}

\* auth_code.used = True
MarkUsed(rows, i) == [rows EXCEPT ![i].used = TRUE]

\* "Get or create user" followed by user.last_login = now.
LoginUser(tg) ==
    IF get_user_by_telegram_id(tg) = {}
    THEN users \cup {[NewUser(tg, DefaultName(tg)) EXCEPT !.last_login = now]}
    ELSE {IF u.telegram_id = tg THEN [u EXCEPT !.last_login = now] ELSE u :
            u \in users}

UserIdOf(us, tg) == (CHOOSE u \in us : u.telegram_id = tg).id

\* AuthService.create_session: the row stored for a freshly generated token.
\* code_row is a history field: the auth_codes row the login consumed
\* (0 when the session does not come from a verification).
NewSession(user_id, token, row) ==
    [user_id |-> user_id, token_hash |-> hash_token(token),
     expires_at |-> now + session_expire_days * MinutesPerDay,
     code_row |-> row]

\* A get_user_by_session_token that does not look at expires_at.
SelectSession_IgnoringExpiry(token) ==
    {s \in sessions : s.token_hash = hash_token(token)}

\* get_user_by_session_token's SELECT.
SelectSession(token) ==
    {s \in sessions : s.token_hash = hash_token(token) /\ s.expires_at > now}

\* AuthService.get_user_by_session_token: the user's id, or 0 for None.
get_user_by_session_token(token) ==
    LET found == SelectSession(token) IN
    IF found = {} THEN 0
    ELSE LET s == CHOOSE x \in found : TRUE
             us == get_user_by_id(s.user_id)
         IN IF us = {} THEN 0 ELSE (CHOOSE u \in us : TRUE).id

\* generate_session_token: 32 random bytes, modelled as a token never drawn
\* before (the tokens are numbered in the order they are generated).
NextToken == Len(issued) + 1

NoOp == [op |-> "none"]

othersAuth == <<posts, postCount, fsm, fsmData, media, rest, outbox>>

(***************************************************************************)
(* The login-code endpoints and bot commands.                              *)
(***************************************************************************)
\* Time passes.
TickSteps == {auth_code_expire_minutes - 1, auth_code_expire_minutes}

Tick ==
    /\ \E d \in TickSteps :
        /\ now + d <= MaxTime
        /\ now' = now + d
    /\ lastOp' = NoOp
    /\ UNCHANGED <<users, authCodes, sessions, issued, othersAuth>>

\* /login and the menu_login button: create the user if needed, then a code.
CmdLogin(tg, code) ==
    /\ Len(authCodes) < MaxCodes
    /\ users' = IF get_user_by_telegram_id(tg) = {}
                THEN users \cup {NewUser(tg, FullName(tg))}
                ELSE users
    /\ authCodes' = create_auth_code(authCodes, tg, code)
    /\ lastOp' = [op |-> "create_code", telegram_id |-> tg]
    /\ UNCHANGED <<now, sessions, issued, othersAuth>>

\* POST /request-code: a code for any telegram_id, sent through the bot.
RequestCode(tg, code) ==
    /\ Len(authCodes) < MaxCodes
    /\ authCodes' = create_auth_code(authCodes, tg, code)
    /\ lastOp' = [op |-> "create_code", telegram_id |-> tg]
    /\ UNCHANGED <<now, users, sessions, issued, othersAuth>>

\* POST /verify: verify_auth_code, then create_session on success.
VerifyCode(tg, code) ==
    LET ncode == normalize_code(code)
        found == SelectAuthCode(tg, ncode)
    IN
    \/ /\ found = {}
       /\ lastOp' = [op |-> "verify", ok |-> FALSE, telegram_id |-> tg,
                     code |-> ncode, row |-> 0]
       /\ UNCHANGED <<now, users, authCodes, sessions, issued, othersAuth>>
    \/ /\ Cardinality(found) = 1
       /\ LET i == CHOOSE x \in found : TRUE IN
          /\ authCodes' = MarkUsed(authCodes, i)
          /\ users' = LoginUser(tg)
          /\ sessions' = sessions \cup
                {NewSession(UserIdOf(users', tg), NextToken, i)}
          /\ issued' = Append(issued, UserIdOf(users', tg))
          /\ lastOp' = [op |-> "verify", ok |-> TRUE, telegram_id |-> tg,
                        code |-> ncode, row |-> i]
       /\ UNCHANGED <<now, othersAuth>>

\* POST /verify-by-code: the telegram_id is taken from the code's row.
\* scalar_one_or_none raises MultipleResultsFound when two rows match: the
\* request fails with nothing committed.
VerifyByCodeOnly(code) ==
    LET ncode == normalize_code(code)
        found == SelectAuthCodeByCode(ncode)
    IN
    \/ /\ Cardinality(found) # 1
       /\ lastOp' = [op |-> "verify", ok |-> FALSE, telegram_id |-> 0,
                     code |-> ncode, row |-> 0]
       /\ UNCHANGED <<now, users, authCodes, sessions, issued, othersAuth>>
    \/ /\ Cardinality(found) = 1
       /\ LET i == CHOOSE x \in found : TRUE
              tg == authCodes[i].telegram_id
          IN
          /\ authCodes' = MarkUsed(authCodes, i)
          /\ users' = LoginUser(tg)
          /\ sessions' = sessions \cup
                {NewSession(UserIdOf(users', tg), NextToken, i)}
          /\ issued' = Append(issued, UserIdOf(users', tg))
          /\ lastOp' = [op |-> "verify", ok |-> TRUE, telegram_id |-> 0,
                        code |-> ncode, row |-> i]
       /\ UNCHANGED <<now, othersAuth>>

InitAuth ==
    /\ now = 0
    /\ users = {}
    /\ authCodes = <<>>
    /\ sessions = {}
    /\ issued = <<>>
    /\ posts = {}
    /\ postCount = 0
    /\ fsm = [c \in TelegramIds |-> "none"]
    /\ fsmData = [c \in TelegramIds |-> EmptyData]
    /\ media = <<>>
    /\ InitRest
    /\ lastOp = NoOp

NextAuth ==
    \/ Tick
    \/ \E tg \in TelegramIds, c \in GeneratedCodes : CmdLogin(tg, c)
    \/ \E tg \in TelegramIds, c \in GeneratedCodes : RequestCode(tg, c)
    \/ \E tg \in TelegramIds, c \in InputCodes : VerifyCode(tg, c)
    \/ \E c \in InputCodes : VerifyByCodeOnly(c)

SpecAuth == InitAuth /\ [][NextAuth]_vars

(***************************************************************************)
(* Sessions: GET /me, POST /logout.                                        *)
(***************************************************************************)
\* An invalidate_session whose SELECT also asks for an unexpired session.
SelectSessionAnyAge_Unexpired(token) ==
    {s \in sessions : s.token_hash = hash_token(token) /\ s.expires_at > now}

\* invalidate_session's SELECT.
SelectSessionAnyAge(token) ==
    {s \in sessions : s.token_hash = hash_token(token)}

\* The session lifetime in minutes.
SessionLifetime == session_expire_days * MinutesPerDay

SessionTickSteps == {SessionLifetime - 1, SessionLifetime}

TickSession ==
    /\ \E d \in SessionTickSteps :
        /\ now + d <= SessionLifetime + MaxTime
        /\ now' = now + d
    /\ lastOp' = NoOp
    /\ UNCHANGED <<users, authCodes, sessions, issued, othersAuth>>

\* POST /verify-by-code, while fewer than MaxSessions tokens were generated.
LoginByCode(code) ==
    /\ Len(issued) < MaxSessions
    /\ VerifyByCodeOnly(code)

\* GET /me (get_current_user) with the cookie's token.
GetCurrentUser(token) ==
    /\ lastOp' = [op |-> "get_user", token |-> token,
                  result |-> get_user_by_session_token(token)]
    /\ UNCHANGED <<now, users, authCodes, sessions, issued, othersAuth>>

\* POST /logout: invalidate_session with the cookie's token.
Logout(token) ==
    LET found == SelectSessionAnyAge(token) IN
    /\ sessions' = IF found = {} THEN sessions
                   ELSE sessions \ {CHOOSE s \in found : TRUE}
    /\ lastOp' = [op |-> "logout", token |-> token, result |-> found # {}]
    /\ UNCHANGED <<now, users, authCodes, issued, othersAuth>>

NextSession ==
    \/ TickSession
    \/ \E tg \in TelegramIds, c \in GeneratedCodes : CmdLogin(tg, c)
    \/ \E c \in InputCodes : LoginByCode(c)
    \/ \E t \in Tokens : GetCurrentUser(t)
    \/ \E t \in Tokens : Logout(t)

SpecSession == InitAuth /\ [][NextSession]_vars

(***************************************************************************)
(* Posts: slugs, the visibility tiers, the public routes.                  *)
(***************************************************************************)
MAX_TITLE_LENGTH == 200
PerPagePublic == 10
PerPageAdmin == 20

\* AccessLevel (IntEnum)
PUBLIC == 0
REGISTERED == 1
PREMIUM_1 == 2
PREMIUM_2 == 3
AccessLevels == {PUBLIC, REGISTERED, PREMIUM_1, PREMIUM_2}

\* PostVisibility and PostStatus (str enums)
PostVisibilities == {"public", "registered", "premium_1", "premium_2"}
PostStatuses == {"draft", "published", "archived"}

\* The characters \w, \s and "-" of slugify's patterns, as far as the
\* model's strings use them.
WordChars == {"a", "b", "c", "x", "A", "B", "1", "2", "3", "_"}
SpaceChars == {" "}

RECURSIVE KeepSlugChars(_)
\* re.sub(r"[^\w\s-]", "", text)
KeepSlugChars(s) ==
    IF s = <<>> THEN <<>>
    ELSE IF Head(s) \in WordChars \cup SpaceChars \cup {"-"}
         THEN <<Head(s)>> \o KeepSlugChars(Tail(s))
         ELSE KeepSlugChars(Tail(s))

RECURSIVE DropSeparators(_)
DropSeparators(s) ==
    IF s # <<>> /\ Head(s) \in SpaceChars \cup {"-"}
    THEN DropSeparators(Tail(s)) ELSE s

RECURSIVE CollapseSeparators(_)
\* re.sub(r"[-\s]+", "-", text)
CollapseSeparators(s) ==
    IF s = <<>> THEN <<>>
    ELSE IF Head(s) \in SpaceChars \cup {"-"}
         THEN <<"-">> \o CollapseSeparators(DropSeparators(s))
         ELSE <<Head(s)>> \o CollapseSeparators(Tail(s))

RECURSIVE StripHyphens(_)
\* text.strip("-")
StripHyphens(s) ==
    IF s # <<>> /\ Head(s) = "-" THEN StripHyphens(Tail(s))
    ELSE IF s # <<>> /\ s[Len(s)] = "-"
         THEN StripHyphens(SubSeq(s, 1, Len(s) - 1))
         ELSE s

slugify(text) == StripHyphens(CollapseSeparators(KeepSlugChars(Lower(text))))

\* str(counter) for the counters the model reaches.
DigitString(n) ==
    CASE n = 1 -> <<"1">>
      [] n = 2 -> <<"2">>
      [] n = 3 -> <<"3">>
      [] OTHER -> <<"1", "0">>

get_by_slug(rows, slug) == {p \in rows : p.slug = slug}

\* A create_post that takes the slugified title without looking.
FreeSlug_NoLoop(rows, base, counter) == base

RECURSIVE FreeSlug(_, _, _)
\* create_post's loop: base, base-1, base-2, ... until get_by_slug is empty.
FreeSlug(rows, base, counter) ==
    LET slug == IF counter = 0 THEN base
                ELSE base \o <<"-">> \o DigitString(counter)
    IN IF get_by_slug(rows, slug) = {} THEN slug
       ELSE FreeSlug(rows, base, counter + 1)

RECURSIVE Words(_, _)
\* to_tsvector: the lower-cased words of the text (cur is the word being read).
Words(s, cur) ==
    IF s = <<>> THEN (IF cur = <<>> THEN {} ELSE {cur})
    ELSE IF Head(s) \in WordChars
         THEN Words(Tail(s), Append(cur, LowerChar(Head(s))))
         ELSE (IF cur = <<>> THEN {} ELSE {cur}) \cup Words(Tail(s), <<>>)

\* update_search_vector: to_tsvector(title || ' ' || content_md)
search_vector(title, content_md) == Words(title \o <<" ">> \o content_md, <<>>)

\* PostService.create_post: the new row (the caller has checked the title).
NewPost(rows, id, author_id, title, content_md, visibility, status) ==
    [id |-> id, author_id |-> author_id, title |-> title,
     slug |-> FreeSlug(rows, slugify(title), 0),
     content_md |-> content_md, visibility |-> visibility, status |-> status,
     search_vector |-> search_vector(title, content_md)]

\* get_post_by_slug's visibility_map.get(user_access_level, [PUBLIC])
visibility_map_get(level) ==
    CASE level = PUBLIC -> {"public"}
      [] level = REGISTERED -> {"public", "registered"}
      [] level = PREMIUM_1 -> {"public", "registered", "premium_1"}
      [] level = PREMIUM_2 -> {"public", "registered", "premium_1", "premium_2"}
      [] OTHER -> {"public"}

\* list_posts' visibility_map.get(user_access_level, [PUBLIC])
visibility_map_list(level) ==
    CASE level = PUBLIC -> {"public"}
      [] level = REGISTERED -> {"public", "registered"}
      [] level = PREMIUM_1 -> {"public", "registered", "premium_1"}
      [] level = PREMIUM_2 -> {"public", "registered", "premium_1", "premium_2"}
      [] OTHER -> {"public"}

\* A search_posts whose map for PREMIUM_2 lacks premium_2.
visibility_map_search_Short(level) ==
    CASE level = PUBLIC -> {"public"}
      [] level = REGISTERED -> {"public", "registered"}
      [] level = PREMIUM_1 -> {"public", "registered", "premium_1"}
      [] level = PREMIUM_2 -> {"public", "registered", "premium_1"}
      [] OTHER -> {"public"}

\* search_posts' visibility_map.get(user_access_level, [PUBLIC])
visibility_map_search(level) ==
    CASE level = PUBLIC -> {"public"}
      [] level = REGISTERED -> {"public", "registered"}
      [] level = PREMIUM_1 -> {"public", "registered", "premium_1"}
      [] level = PREMIUM_2 -> {"public", "registered", "premium_1", "premium_2"}
      [] OTHER -> {"public"}

\* OFFSET (page - 1) * per_page LIMIT per_page over the matching rows.  The
\* model holds fewer than per_page posts, so page 1 is all of them and the
\* later pages are empty; the order within a page is not modelled.
Page(matching, page, per_page) ==
    IF page = 1 /\ Cardinality(matching) <= per_page THEN matching
    ELSE IF page > 1 /\ (page - 1) * per_page >= Cardinality(matching) THEN {}
    ELSE {p \in matching : FALSE}

\* PostService.get_post_by_slug: the matching rows (at most one: slug is unique).
get_post_by_slug(slug, level) ==
    {p \in posts :
        /\ p.slug = slug
        /\ p.visibility \in visibility_map_get(level)
        /\ p.status = "published"}

\* A list_posts that forgets the status filter.
list_posts_AlwaysDrafts(level, page, per_page, include_drafts) ==
    Page({p \in posts : p.visibility \in visibility_map_list(level)},
         page, per_page)

\* PostService.list_posts: the rows of the page.
list_posts(level, page, per_page, include_drafts) ==
    Page({p \in posts :
            /\ p.visibility \in visibility_map_list(level)
            /\ (include_drafts \/ p.status = "published")},
         page, per_page)

\* PostService.search_posts: the rows of the page; websearch_to_tsquery of a
\* one-word query matches the rows whose vector holds the word.
search_posts(query, level, page, per_page) ==
    Page({p \in posts :
            /\ p.visibility \in visibility_map_search(level)
            /\ p.status = "published"
            /\ Words(query, <<>>) # {}
            /\ Words(query, <<>>) \subseteq p.search_vector},
         page, per_page)

\* The requesters of the web routes: nobody logged in, or a user row.
Anonymous == [anonymous |-> TRUE]
Requesters ==
    {Anonymous} \cup
    {[access_level |-> l, is_admin |-> a] : l \in AccessLevels, a \in BOOLEAN}

\* "Admins see all content regardless of their access_level"
effective_access_level(user) ==
    IF user # Anonymous /\ user.is_admin THEN PREMIUM_2
    ELSE IF user # Anonymous THEN user.access_level ELSE PUBLIC

\* GET /posts/{slug}: the post rendered (empty: 404).
post_detail(user, slug) == get_post_by_slug(slug, effective_access_level(user))

\* GET /partials/posts
posts_partial(user, page) ==
    list_posts(effective_access_level(user), page, PerPagePublic, FALSE)

\* GET /search
search_page(user, q, page) ==
    IF Strip(q) # <<>>
    THEN search_posts(q, effective_access_level(user), page, PerPagePublic)
    ELSE {}

\* GET /partials/search-results
search_results_partial(user, q, page) ==
    IF Strip(q) # <<>>
    THEN search_posts(q, effective_access_level(user), page, PerPagePublic)
    ELSE {}

\* GET /admin (require_admin, then list_posts with include_drafts=True).
admin_dashboard(user) ==
    IF user # Anonymous /\ user.is_admin
    THEN list_posts(PREMIUM_2, 1, PerPageAdmin, TRUE)
    ELSE {}

\* The strings the model's requests carry.
PostTitles == {<<"A", " ", "-", "b", "!">>}
PostContents == {<<"x">>}
Queries == {<<"B">>, <<"c">>, <<" ">>}
Pages == {1, 2}
Slugs == {<<"a", "-", "b">>, <<"a", "-", "b", "-", "1">>,
          <<"a", "-", "b", "-", "2">>}

(***************************************************************************)
(* Post notifications: src/services/notification.py.  A notification is    *)
(* the pair of the chat it is sent to and the post it announces.           *)
(***************************************************************************)
get_required_access_level(visibility) ==
    CASE visibility = "public" -> PUBLIC
      [] visibility = "registered" -> REGISTERED
      [] visibility = "premium_1" -> PREMIUM_1
      [] visibility = "premium_2" -> PREMIUM_2
      [] OTHER -> PUBLIC

get_users_for_notification(rows, min_access_level) ==
    {u \in rows : u.is_active /\ u.access_level >= min_access_level}

Notification(user, post) == [chat |-> user.telegram_id, post_id |-> post.id]

\* NotificationService.notify_new_post; failing is the set of chats for
\* which bot.send_message raises.
notify_new_post(rows, post, failing) ==
    LET level == get_required_access_level(post.visibility)
        min_level == IF level = PUBLIC THEN REGISTERED ELSE level
        recipients == get_users_for_notification(rows, min_level)
        reached == {u \in recipients : u.telegram_id \notin failing}
    IN [count |-> Cardinality(reached),
        sent |-> {Notification(u, post) : u \in reached}]

\* notify_post_published, the helper the three publishing handlers call:
\* it returns 0 and calls nothing.
notify_post_published(rows, post) == [count |-> 0, sent |-> {}]

othersPublish == <<now, authCodes, sessions, issued, rest>>

othersPosts == <<now, users, authCodes, sessions, issued, fsm, fsmData,
                 media, rest, outbox>>

\* POST /admin/posts/new by an admin.
AdminCreatePost(title, content_md, visibility, status) ==
    /\ postCount < MaxPosts
    /\ Len(title) <= MAX_TITLE_LENGTH
    /\ posts' = posts \cup
            {NewPost(posts, postCount + 1, 1, title, content_md, visibility,
                     status)}
    /\ postCount' = postCount + 1
    /\ outbox' = IF status = "published"
                 THEN outbox \cup notify_post_published(users,
                         NewPost(posts, postCount + 1, 1, title, content_md,
                                 visibility, status)).sent
                 ELSE outbox
    /\ lastOp' = [op |-> "admin_create_post"]
    /\ UNCHANGED <<users, fsm, fsmData, media, othersPublish>>

\* PostService.update_post as POST /admin/posts/{id}/edit calls it: title,
\* visibility and status are always given; the slug is not touched.
update_post(p, title, content_md, visibility, status) ==
    LET t == IF title # <<>> THEN title ELSE p.title
        c == IF content_md # <<>> THEN content_md ELSE p.content_md
    IN [p EXCEPT !.title = t, !.content_md = c, !.visibility = visibility,
                 !.status = status, !.search_vector = search_vector(t, c)]

AdminUpdatePost(p, title, content_md, visibility, status) ==
    /\ posts' = (posts \ {p})
            \cup {update_post(p, title, content_md, visibility, status)}
    /\ outbox' = IF status = "published" /\ p.status # "published"
                 THEN outbox \cup notify_post_published(users,
                         update_post(p, title, content_md, visibility,
                                     status)).sent
                 ELSE outbox
    /\ lastOp' = [op |-> "admin_update_post"]
    /\ UNCHANGED <<postCount, users, fsm, fsmData, media, othersPublish>>

\* DELETE /admin/posts/{id}
AdminDeletePost(p) ==
    /\ posts' = posts \ {p}
    /\ lastOp' = [op |-> "admin_delete_post"]
    /\ UNCHANGED <<postCount, othersPosts>>

\* GET /posts/{slug}: 404, or the page.  (The page view also adds one to the
\* row's view_count, a column no query reads; the rows here do not carry it.)
PostDetail(user, slug) ==
    /\ lastOp' = [op |-> "post_detail",
                  status |-> IF post_detail(user, slug) = {} THEN 404 ELSE 200]
    /\ UNCHANGED <<posts, postCount, othersPosts>>

\* GET /partials/posts, /search and /partials/search-results only read.
PostsPartial(user, page) ==
    /\ lastOp' = [op |-> "posts_partial",
                  any |-> posts_partial(user, page) # {}]
    /\ UNCHANGED <<posts, postCount, othersPosts>>

Search(user, q, page) ==
    /\ lastOp' = [op |-> "search",
                  any |-> search_page(user, q, page) # {}]
    /\ UNCHANGED <<posts, postCount, othersPosts>>

InitPosts == InitAuth

NextPosts ==
    \/ \E t \in PostTitles, c \in PostContents, v \in PostVisibilities,
          st \in PostStatuses : AdminCreatePost(t, c, v, st)
    \/ \E p \in posts, t \in PostTitles, c \in PostContents,
          v \in PostVisibilities, st \in PostStatuses :
            AdminUpdatePost(p, t, c, v, st)
    \/ \E p \in posts : AdminDeletePost(p)
    \/ \E u \in Requesters, sl \in Slugs : PostDetail(u, sl)
    \/ \E u \in Requesters, pg \in Pages : PostsPartial(u, pg)
    \/ \E u \in Requesters, q \in Queries, pg \in Pages : Search(u, q, pg)

SpecPosts == InitPosts /\ [][NextPosts]_vars

(***************************************************************************)
(* The Telegram bot: FSM storage, updates, routing.                        *)
(***************************************************************************)
TitleMinLength == 3
TitleMaxLength == 256
ContentMinLength == 10
NicknameMaxLength == 128

PostCreationStates ==
    {"waiting_for_type", "waiting_for_title", "waiting_for_content",
     "confirm_save_audio", "waiting_for_visibility", "waiting_for_media",
     "waiting_for_publish_choice"}
NicknameChangeStates == {"waiting_for_nickname"}

\* FSMContext over the dispatcher's storage: one state and one dict per chat.
set_state(f, chat, st) == [f EXCEPT ![chat] = st]
update_data(d, chat, kv) == [d EXCEPT ![chat] = kv @@ d[chat]]
get(dict, key, default) == IF key \in DOMAIN dict THEN dict[key] ELSE default

\* A state.clear() that wipes the whole storage.
clear_AllChats(f, chat, empty) == [c \in DOMAIN f |-> empty]

\* state.clear(): the chat's state (or data) back to empty.
clear(f, chat, empty) == [f EXCEPT ![chat] = empty]

Rep(ch, n) == [i \in 1..n |-> ch]

\* The texts the model's chats send.
CancelText == <<"/", "c", "a", "n", "c", "e", "l">>
NewpostText == <<"/", "n", "e", "w", "p", "o", "s", "t">>
HelpText == <<"/", "h", "e", "l", "p">>
MenuText == <<"/", "m", "e", "n", "u">>
StartText == <<"/", "s", "t", "a", "r", "t">>
ShortText == <<" ", "a", "b", " ">>
GoodText == <<" ", "a", "b", "c", " ", "a", "b", "c", " ", "a", "b">>
LongText == Rep("a", TitleMaxLength + 1)
Text(t) == [kind |-> "text", text |-> t]
Voice == [kind |-> "voice"]
Photo == [kind |-> "photo"]
Document == [kind |-> "document", mime |-> "application"]

\* The updates the model's chats send: a command goes to its handler as
\* the bare command, and the handlers of a state get the messages (a text
\* or a media kind) and the buttons that exercise their branches.
NicknameMessages == {Text(CancelText), Text(LongText), Voice}
TitleMessages == {Text(ShortText), Text(GoodText), Text(LongText), Voice}
ContentMessages == {Text(ShortText), Text(GoodText), Voice, Photo}
MediaMessages == {Text(GoodText), Voice, Photo, Document}
OtherMessages == {Text(GoodText), Voice}
VisibilityButtons == {"vis_premium_1"}
StaleButtons == {"post_type_voice", "vis_premium_1", "publish_now"}

\* The first whitespace-separated token of a text without leading blanks.
TakeToken(s) ==
    LET blanks == {i \in DOMAIN s : s[i] = " "} IN
    IF blanks = {} THEN s
    ELSE SubSeq(s, 1, (CHOOSE i \in blanks : \A j \in blanks : i <= j) - 1)

\* Command(name): a text message whose first token is "/" and the name.
Command(msg, name) ==
    /\ msg.kind = "text"
    /\ msg.text # <<>>
    /\ LStrip(msg.text)[1] = "/"
    /\ TakeToken(LStrip(msg.text)) = <<"/">> \o name

\* A handler's state filter.
StateFilter(current, required) == current = required

\* The message handler that takes the update: auth_router's handlers in the
\* order of registration, then posts_router's; "unhandled" if none matches.
RouteMessage(st, msg) ==
    IF Command(msg, <<"s", "t", "a", "r", "t">>)
    THEN "cmd_start" ELSE
    IF Command(msg, <<"l", "o", "g", "i", "n">>)
    THEN "cmd_login" ELSE
    IF Command(msg, <<"h", "e", "l", "p">>)
    THEN "cmd_help" ELSE
    IF Command(msg, <<"m", "e", "n", "u">>)
    THEN "cmd_menu" ELSE
    IF StateFilter(st, "waiting_for_nickname")
    THEN "process_nickname_change" ELSE
    IF Command(msg, <<"n", "e", "w", "p", "o", "s", "t">>)
    THEN "cmd_newpost" ELSE
    IF Command(msg, <<"c", "a", "n", "c", "e", "l">>)
    THEN "cmd_cancel" ELSE
    IF StateFilter(st, "waiting_for_title")
    THEN "process_title" ELSE
    IF /\ StateFilter(st, "waiting_for_content")
       /\ msg.kind = "text"
    THEN "process_content_text" ELSE
    IF /\ StateFilter(st, "waiting_for_content")
       /\ msg.kind \in {"voice", "video_note", "audio", "video"}
    THEN "process_content_media" ELSE
    IF /\ StateFilter(st, "waiting_for_media")
       /\ msg.kind \in {"photo", "audio", "video"}
    THEN "process_media" ELSE
    IF /\ StateFilter(st, "waiting_for_media")
       /\ msg.kind = "document"
    THEN "process_media_document" ELSE
    "unhandled"

\* The callback data the filters of posts_router recognise:
\* startswith("post_type_"), startswith("audio_save_"), startswith("vis_"),
\* == "media_done" / "media_skip", in {"publish_now", "publish_draft"}.
PostTypeData == {"post_type_text", "post_type_voice"}
AudioSaveData == {"audio_save_yes", "audio_save_no"}
VisibilityData == {"vis_public", "vis_registered", "vis_premium_1",
                   "vis_premium_2"}
MediaDoneData == {"media_done", "media_skip"}
PublishData == {"publish_now", "publish_draft"}

\* The callback handler that takes a button press, in the same order.
RouteCallback(st, data) ==
    IF data = "menu_login"
    THEN "callback_menu_login" ELSE
    IF data = "menu_back"
    THEN "callback_menu_back" ELSE
    IF data = "menu_newpost"
    THEN "callback_menu_newpost" ELSE
    IF data = "menu_back_clear"
    THEN "callback_menu_back_clear" ELSE
    IF data = "menu_nickname"
    THEN "callback_menu_nickname" ELSE
    IF /\ data \in PostTypeData
       /\ StateFilter(st, "waiting_for_type")
    THEN "process_post_type" ELSE
    IF /\ data \in AudioSaveData
       /\ StateFilter(st, "confirm_save_audio")
    THEN "process_audio_save_choice" ELSE
    IF /\ data \in VisibilityData
       /\ StateFilter(st, "waiting_for_visibility")
    THEN "process_visibility" ELSE
    IF /\ data \in MediaDoneData
       /\ StateFilter(st, "waiting_for_media")
    THEN "process_media_done" ELSE
    IF /\ data \in PublishData
       /\ StateFilter(st, "waiting_for_publish_choice")
    THEN "process_publish_choice" ELSE
    IF data \in MediaDoneData \cup PublishData \cup VisibilityData
               \cup AudioSaveData \cup PostTypeData
    THEN "handle_stale_callback" ELSE
    "unhandled"

othersBot == <<now, authCodes, sessions, issued, rest, outbox>>

\* The handlers whose answer lastOp keeps; after any other handler it is
\* back to NoOp.
RecordedHandlers == {"cmd_cancel", "process_publish_choice"}

Answer(chat, handler, reply) ==
    lastOp' = IF handler \in RecordedHandlers
              THEN [op |-> handler, reply |-> reply]
              ELSE NoOp

IsAdmin(chat) == \E u \in get_user_by_telegram_id(chat) : u.is_admin

\* /start: create the user, or refresh the display name from Telegram.
cmd_start(chat, msg) ==
    /\ RouteMessage(fsm[chat], msg) = "cmd_start"
    /\ users' = IF get_user_by_telegram_id(chat) = {}
                THEN users \cup {NewUser(chat, FullName(chat))}
                ELSE {IF u.telegram_id = chat
                      THEN [u EXCEPT !.display_name = FullName(chat)]
                      ELSE u : u \in users}
    /\ Answer(chat, "cmd_start", "menu")
    /\ UNCHANGED <<posts, postCount, fsm, fsmData, media, othersBot>>

\* /help, /menu and the menu_back button only answer.
cmd_help(chat, msg) ==
    /\ RouteMessage(fsm[chat], msg) = "cmd_help"
    /\ Answer(chat, "cmd_help", "help")
    /\ UNCHANGED <<users, posts, postCount, fsm, fsmData, media, othersBot>>

cmd_menu(chat, msg) ==
    /\ RouteMessage(fsm[chat], msg) = "cmd_menu"
    /\ Answer(chat, "cmd_menu", "menu")
    /\ UNCHANGED <<users, posts, postCount, fsm, fsmData, media, othersBot>>

callback_menu_back(chat, data) ==
    /\ RouteCallback(fsm[chat], data) = "callback_menu_back"
    /\ Answer(chat, "callback_menu_back", "menu")
    /\ UNCHANGED <<users, posts, postCount, fsm, fsmData, media, othersBot>>

\* The menu's "new post" button: admins enter waiting_for_type.
callback_menu_newpost(chat, data) ==
    /\ RouteCallback(fsm[chat], data) = "callback_menu_newpost"
    /\ IF ~IsAdmin(chat)
       THEN /\ Answer(chat, "callback_menu_newpost", "admins_only")
            /\ UNCHANGED fsm
       ELSE /\ fsm' = set_state(fsm, chat, "waiting_for_type")
            /\ Answer(chat, "callback_menu_newpost", "choose_type")
    /\ UNCHANGED <<users, posts, postCount, fsmData, media, othersBot>>

\* The "back to menu" button of the flows: state.clear().
callback_menu_back_clear(chat, data) ==
    /\ RouteCallback(fsm[chat], data) = "callback_menu_back_clear"
    /\ fsm' = clear(fsm, chat, "none")
    /\ fsmData' = clear(fsmData, chat, EmptyData)
    /\ Answer(chat, "callback_menu_back_clear", "menu")
    /\ UNCHANGED <<users, posts, postCount, media, othersBot>>

\* The menu's "change nickname" button.
callback_menu_nickname(chat, data) ==
    /\ RouteCallback(fsm[chat], data) = "callback_menu_nickname"
    /\ IF get_user_by_telegram_id(chat) = {}
       THEN /\ Answer(chat, "callback_menu_nickname", "user_not_found")
            /\ UNCHANGED fsm
       ELSE /\ fsm' = set_state(fsm, chat, "waiting_for_nickname")
            /\ Answer(chat, "callback_menu_nickname", "enter_nickname")
    /\ UNCHANGED <<users, posts, postCount, fsmData, media, othersBot>>

\* UserService.update_display_name: "ok", or the ValueError raised.
update_display_name(new_display_name) ==
    IF Strip(new_display_name) = <<>> THEN "empty"
    ELSE IF Len(Strip(new_display_name)) > NicknameMaxLength THEN "too_long"
    ELSE "ok"

\* Any message while the chat is in NicknameChange.waiting_for_nickname.
process_nickname_change(chat, msg) ==
    LET new_nickname == IF msg.kind = "text" THEN Strip(msg.text) ELSE <<>>
        result == update_display_name(new_nickname)
    IN
    /\ RouteMessage(fsm[chat], msg) = "process_nickname_change"
    /\ IF get_user_by_telegram_id(chat) = {}
       THEN /\ fsm' = clear(fsm, chat, "none")
            /\ fsmData' = clear(fsmData, chat, EmptyData)
            /\ Answer(chat, "process_nickname_change", "user_not_found")
            /\ UNCHANGED users
       ELSE IF result = "ok"
       THEN /\ users' = {IF u.telegram_id = chat
                         THEN [u EXCEPT !.display_name = Strip(new_nickname)]
                         ELSE u : u \in users}
            /\ fsm' = clear(fsm, chat, "none")
            /\ fsmData' = clear(fsmData, chat, EmptyData)
            /\ Answer(chat, "process_nickname_change", "nickname_changed")
       ELSE /\ Answer(chat, "process_nickname_change", result)
            /\ UNCHANGED <<users, fsm, fsmData>>
    /\ UNCHANGED <<posts, postCount, media, othersBot>>

\* /newpost: admins enter waiting_for_type (the stored data stays).
cmd_newpost(chat, msg) ==
    /\ RouteMessage(fsm[chat], msg) = "cmd_newpost"
    /\ IF ~IsAdmin(chat)
       THEN /\ Answer(chat, "cmd_newpost", "admins_only")
            /\ UNCHANGED fsm
       ELSE /\ fsm' = set_state(fsm, chat, "waiting_for_type")
            /\ Answer(chat, "cmd_newpost", "choose_type")
    /\ UNCHANGED <<users, posts, postCount, fsmData, media, othersBot>>

\* /cancel
cmd_cancel(chat, msg) ==
    /\ RouteMessage(fsm[chat], msg) = "cmd_cancel"
    /\ IF fsm[chat] = "none"
       THEN /\ Answer(chat, "cmd_cancel", "nothing_to_cancel")
            /\ UNCHANGED <<fsm, fsmData>>
       ELSE /\ fsm' = clear(fsm, chat, "none")
            /\ fsmData' = clear(fsmData, chat, EmptyData)
            /\ Answer(chat, "cmd_cancel", "cancelled")
    /\ UNCHANGED <<users, posts, postCount, media, othersBot>>

\* "voice" if "voice" in callback.data else "text"
post_type_of(data) == IF data = "post_type_voice" THEN "voice" ELSE "text"

process_post_type(chat, data) ==
    /\ RouteCallback(fsm[chat], data) = "process_post_type"
    /\ fsmData' = update_data(fsmData, chat, [post_type |-> post_type_of(data)])
    /\ fsm' = set_state(fsm, chat, "waiting_for_title")
    /\ Answer(chat, "process_post_type", "send_title")
    /\ UNCHANGED <<users, posts, postCount, media, othersBot>>

\* process_title without the checks of the title's length.
process_title_AnyLength(chat, msg) ==
    /\ RouteMessage(fsm[chat], msg) = "process_title"
    /\ IF msg.kind # "text"
       THEN /\ Answer(chat, "process_title", "text_expected")
            /\ UNCHANGED <<fsm, fsmData>>
       ELSE /\ fsmData' = update_data(fsmData, chat, [title |-> Strip(msg.text)])
            /\ fsm' = set_state(fsm, chat, "waiting_for_content")
            /\ Answer(chat, "process_title", "send_content")
    /\ UNCHANGED <<users, posts, postCount, media, othersBot>>

\* process_title: the title must be a text of 3 to 256 characters.
process_title(chat, msg) ==
    /\ RouteMessage(fsm[chat], msg) = "process_title"
    /\ IF msg.kind # "text"
       THEN /\ Answer(chat, "process_title", "text_expected")
            /\ UNCHANGED <<fsm, fsmData>>
       ELSE IF Len(Strip(msg.text)) < TitleMinLength
       THEN /\ Answer(chat, "process_title", "title_too_short")
            /\ UNCHANGED <<fsm, fsmData>>
       ELSE IF Len(Strip(msg.text)) > TitleMaxLength
       THEN /\ Answer(chat, "process_title", "title_too_long")
            /\ UNCHANGED <<fsm, fsmData>>
       ELSE /\ fsmData' = update_data(fsmData, chat, [title |-> Strip(msg.text)])
            /\ fsm' = set_state(fsm, chat, "waiting_for_content")
            /\ Answer(chat, "process_title", "send_content")
    /\ UNCHANGED <<users, posts, postCount, media, othersBot>>

process_content_text(chat, msg) ==
    /\ RouteMessage(fsm[chat], msg) = "process_content_text"
    /\ IF get(fsmData[chat], "post_type", "text") = "voice"
       THEN /\ Answer(chat, "process_content_text", "voice_expected")
            /\ UNCHANGED <<fsm, fsmData>>
       ELSE IF Len(Strip(msg.text)) < ContentMinLength
       THEN /\ Answer(chat, "process_content_text", "content_too_short")
            /\ UNCHANGED <<fsm, fsmData>>
       ELSE /\ fsmData' = update_data(fsmData, chat, [content |-> Strip(msg.text)])
            /\ fsm' = set_state(fsm, chat, "waiting_for_visibility")
            /\ Answer(chat, "process_content_text", "choose_visibility")
    /\ UNCHANGED <<users, posts, postCount, media, othersBot>>

\* What Telegram and the transcription service can do with a voice or video
\* message: the download fails, the transcription fails or is empty, the
\* file is refused by save_from_bytes, or all of it works.
ContentOutcomes ==
    {"download_error", "transcription_error", "empty_transcription",
     "save_error", "ok"}

\* format_transcription's text for the model's recordings.
TranscriptText == <<"a", "b", "c", " ", "a", "b", "c", " ", "a", "b">>

media_type_label(kind) ==
    IF kind \in {"voice", "audio"} THEN "audio" ELSE "video"

\* MediaService.save_from_bytes: the new row.  Media ids count from 1; a
\* voice_media_id of 0 stands for None.
NewMedia(rows, uploader_id) ==
    [id |-> Len(rows) + 1, uploader_id |-> uploader_id, post_id |-> 0,
     sort_order |-> 0]

\* process_content_voice / _video_note / _audio_file / _video_file
process_content_media(chat, msg, outcome) ==
    LET user == get_user_by_telegram_id(chat) IN
    /\ RouteMessage(fsm[chat], msg) = "process_content_media"
    /\ IF get(fsmData[chat], "post_type", "text") # "voice"
       THEN /\ outcome = "ok"
            /\ Answer(chat, "process_content_media", "text_expected")
            /\ UNCHANGED <<fsm, fsmData, media>>
       ELSE IF outcome # "ok"
       THEN /\ outcome = "save_error" => user # {}
            /\ Answer(chat, "process_content_media", outcome)
            /\ UNCHANGED <<fsm, fsmData, media>>
       ELSE /\ user # {} => Len(media) < MaxMedia
            /\ media' = IF user # {}
                        THEN Append(media, NewMedia(media, UserIdOf(users, chat)))
                        ELSE media
            /\ fsmData' = update_data(fsmData, chat,
                    [content |-> TranscriptText,
                     voice_media_id |-> IF user # {} THEN Len(media) + 1
                                        ELSE 0,
                     media_type_label |-> media_type_label(msg.kind)])
            /\ fsm' = set_state(fsm, chat, "confirm_save_audio")
            /\ Answer(chat, "process_content_media", "save_original")
    /\ UNCHANGED <<users, posts, postCount, othersBot>>

process_audio_save_choice(chat, data) ==
    /\ RouteCallback(fsm[chat], data) = "process_audio_save_choice"
    /\ fsmData' = update_data(fsmData, chat,
            [save_original_audio |-> (data = "audio_save_yes")])
    /\ fsm' = set_state(fsm, chat, "waiting_for_visibility")
    /\ Answer(chat, "process_audio_save_choice", "choose_visibility")
    /\ UNCHANGED <<users, posts, postCount, media, othersBot>>

\* callback.data.replace("vis_", "")
visibility_of(data) ==
    CASE data = "vis_public" -> "public"
      [] data = "vis_registered" -> "registered"
      [] data = "vis_premium_1" -> "premium_1"
      [] data = "vis_premium_2" -> "premium_2"

process_visibility(chat, data) ==
    /\ RouteCallback(fsm[chat], data) = "process_visibility"
    /\ fsmData' = update_data(fsmData, chat,
            [visibility |-> visibility_of(data), media_ids |-> <<>>])
    /\ fsm' = set_state(fsm, chat, "waiting_for_media")
    /\ Answer(chat, "process_visibility", "send_media")
    /\ UNCHANGED <<users, posts, postCount, media, othersBot>>

MediaOutcomes == {"download_error", "save_error", "ok"}

\* _save_telegram_media: the state never changes, only the stored media_ids.
save_telegram_media(chat, handler, outcome) ==
    IF outcome = "download_error"
    THEN /\ Answer(chat, handler, "download_error")
         /\ UNCHANGED <<fsmData, media>>
    ELSE IF get_user_by_telegram_id(chat) = {}
    THEN /\ outcome = "ok"
         /\ Answer(chat, handler, "user_not_found")
         /\ UNCHANGED <<fsmData, media>>
    ELSE IF outcome = "save_error"
    THEN /\ Answer(chat, handler, "save_error")
         /\ UNCHANGED <<fsmData, media>>
    ELSE /\ Len(media) < MaxMedia
         /\ media' = Append(media, NewMedia(media, UserIdOf(users, chat)))
         /\ fsmData' = update_data(fsmData, chat,
                [media_ids |-> Append(get(fsmData[chat], "media_ids", <<>>),
                                      Len(media) + 1)])
         /\ Answer(chat, handler, "media_saved")

\* process_media_photo / _audio / _video
process_media(chat, msg, outcome) ==
    /\ RouteMessage(fsm[chat], msg) = "process_media"
    /\ save_telegram_media(chat, "process_media", outcome)
    /\ UNCHANGED <<users, posts, postCount, fsm, othersBot>>

\* process_media_document: a document is saved if its MIME type is media.
process_media_document(chat, msg, outcome) ==
    /\ RouteMessage(fsm[chat], msg) = "process_media_document"
    /\ IF msg.mime \in {"image", "audio", "video"}
       THEN save_telegram_media(chat, "process_media_document", outcome)
       ELSE /\ outcome = "ok"
            /\ Answer(chat, "process_media_document", "unsupported_type")
            /\ UNCHANGED <<fsmData, media>>
    /\ UNCHANGED <<users, posts, postCount, fsm, othersBot>>

process_media_done(chat, data) ==
    /\ RouteCallback(fsm[chat], data) = "process_media_done"
    /\ fsm' = set_state(fsm, chat, "waiting_for_publish_choice")
    /\ Answer(chat, "process_media_done", "choose_publish")
    /\ UNCHANGED <<users, posts, postCount, fsmData, media, othersBot>>

\* Position of an id in the list of media_ids (enumerate).
IndexOf(seq, x) == CHOOSE i \in DOMAIN seq : seq[i] = x

\* The attach_to_post / update_sort_order calls of process_publish_choice.
attach_media(rows, data, post_id, user_id) ==
    LET voice == /\ get(data, "save_original_audio", FALSE)
                 /\ get(data, "voice_media_id", 0) # 0
        media_ids == get(data, "media_ids", <<>>)
        start_idx == IF voice THEN 1 ELSE 0
        ids == {media_ids[i] : i \in DOMAIN media_ids}
    IN [i \in DOMAIN rows |->
          IF i \in ids
          THEN [rows[i] EXCEPT
                  !.post_id = IF rows[i].uploader_id = user_id
                              THEN post_id ELSE @,
                  !.sort_order = start_idx + IndexOf(media_ids, i) - 1]
          ELSE IF voice /\ i = data.voice_media_id
          THEN [rows[i] EXCEPT
                  !.post_id = IF rows[i].uploader_id = user_id
                              THEN post_id ELSE @,
                  !.sort_order = 0]
          ELSE rows[i]]

\* publish_now / publish_draft in waiting_for_publish_choice: the state is
\* cleared first, then the post is created from the stored data.
process_publish_choice(chat, data) ==
    LET d == fsmData[chat]
        user == get_user_by_telegram_id(chat)
    IN
    /\ RouteCallback(fsm[chat], data) = "process_publish_choice"
    /\ fsm' = clear(fsm, chat, "none")
    /\ fsmData' = clear(fsmData, chat, EmptyData)
    /\ IF user = {}
       THEN /\ Answer(chat, "process_publish_choice", "user_not_found")
            /\ UNCHANGED <<posts, postCount, media, outbox>>
       ELSE IF Len(d.title) > MAX_TITLE_LENGTH
       THEN /\ Answer(chat, "process_publish_choice", "error")
            /\ UNCHANGED <<posts, postCount, media, outbox>>
       ELSE /\ postCount < MaxBotPosts
            /\ posts' = posts \cup
                  {NewPost(posts, postCount + 1, UserIdOf(users, chat),
                           d.title, d.content, d.visibility,
                           IF data = "publish_now" THEN "published"
                           ELSE "draft")}
            /\ postCount' = postCount + 1
            /\ outbox' = IF data = "publish_now"
                         THEN outbox \cup notify_post_published(users,
                                 NewPost(posts, postCount + 1,
                                         UserIdOf(users, chat), d.title,
                                         d.content, d.visibility,
                                         "published")).sent
                         ELSE outbox
            /\ media' = attach_media(media, d, postCount + 1,
                                     UserIdOf(users, chat))
            /\ Answer(chat, "process_publish_choice", "post_created")
    /\ UNCHANGED <<users, othersPublish>>

\* A flow button pressed in a state that does not expect it.
handle_stale_callback(chat, data) ==
    /\ RouteCallback(fsm[chat], data) = "handle_stale_callback"
    /\ Answer(chat, "handle_stale_callback", "session_expired")
    /\ UNCHANGED <<users, posts, postCount, fsm, fsmData, media, othersBot>>

\* A message no handler takes.
unhandled(chat, msg) ==
    /\ RouteMessage(fsm[chat], msg) = "unhandled"
    /\ Answer(chat, "unhandled", "none")
    /\ UNCHANGED <<users, posts, postCount, fsm, fsmData, media, othersBot>>

AdminUser ==
    [id |-> 1, telegram_id |-> 1, display_name |-> FullName(1),
     access_level |-> 1, is_admin |-> TRUE, is_active |-> TRUE,
     last_login |-> 0]

\* The account of chat 1 exists and is an admin; chat 2 has no account yet.
InitBot ==
    /\ now = 0
    /\ users = {AdminUser}
    /\ authCodes = <<>>
    /\ sessions = {}
    /\ issued = <<>>
    /\ posts = {}
    /\ postCount = 0
    /\ fsm = [c \in TelegramIds |-> "none"]
    /\ fsmData = [c \in TelegramIds |-> EmptyData]
    /\ media = <<>>
    /\ InitRest
    /\ lastOp = NoOp

\* The dispatcher offers a message to the message handlers; the routing
\* lets exactly one of them take it.  (/login and the menu_login button
\* never touch the conversation state; CmdLogin models them.)
DeliverMessage(c, m) ==
    \/ cmd_start(c, m)
    \/ cmd_help(c, m)
    \/ cmd_menu(c, m)
    \/ process_nickname_change(c, m)
    \/ cmd_newpost(c, m)
    \/ cmd_cancel(c, m)
    \/ process_title(c, m)
    \/ process_content_text(c, m)
    \/ \E o \in ContentOutcomes : process_content_media(c, m, o)
    \/ \E o \in MediaOutcomes : process_media(c, m, o)
    \/ \E o \in MediaOutcomes : process_media_document(c, m, o)
    \/ unhandled(c, m)

\* One update of chat c, handled.
BotUpdate(c) ==
    \/ cmd_start(c, Text(StartText))
    \/ cmd_help(c, Text(HelpText))
    \/ cmd_menu(c, Text(MenuText))
    \/ \E m \in NicknameMessages : process_nickname_change(c, m)
    \/ cmd_newpost(c, Text(NewpostText))
    \/ cmd_cancel(c, Text(CancelText))
    \/ \E m \in TitleMessages : process_title(c, m)
    \/ \E m \in ContentMessages : process_content_text(c, m)
    \/ \E m \in ContentMessages, o \in ContentOutcomes :
            process_content_media(c, m, o)
    \/ \E m \in MediaMessages, o \in MediaOutcomes : process_media(c, m, o)
    \/ \E m \in MediaMessages, o \in MediaOutcomes :
            process_media_document(c, m, o)
    \/ \E m \in OtherMessages : unhandled(c, m)
    \/ callback_menu_back(c, "menu_back")
    \/ callback_menu_newpost(c, "menu_newpost")
    \/ callback_menu_back_clear(c, "menu_back_clear")
    \/ callback_menu_nickname(c, "menu_nickname")
    \/ \E d \in PostTypeData : process_post_type(c, d)
    \/ \E d \in AudioSaveData : process_audio_save_choice(c, d)
    \/ \E d \in VisibilityButtons : process_visibility(c, d)
    \/ \E d \in MediaDoneData : process_media_done(c, d)
    \/ \E d \in PublishData : process_publish_choice(c, d)
    \/ \E d \in StaleButtons : handle_stale_callback(c, d)

NextBot == \E c \in TelegramIds : BotUpdate(c)

SpecBot == InitBot /\ [][NextBot]_vars

(***************************************************************************)
(* User administration (src/services/user.py and the /admin/users routes). *)
(***************************************************************************)
\* The ids a request may name: the rows of the table and one that is no row.
UserIds == {1, 2, 3}
MissingUserId == 4
TargetIds == UserIds \cup {MissingUserId}

\* UserService.count_admins: the users with is_admin and is_active.
count_admins(rows) ==
    Cardinality({u \in rows : u.is_admin /\ u.is_active})

\* The table with the row of user_id replaced by row.
UpdateUser(rows, user_id, row) ==
    {IF u.id = user_id THEN row ELSE u : u \in rows}

\* The row of user_id (the caller has checked that it exists).
UserById(rows, user_id) == CHOOSE u \in rows : u.id = user_id

\* The answer of a service call: the user is missing (None), the call
\* raised ValueError, or the row was written.
Outcome(result, rows) == [result |-> result, users |-> rows]

\* A toggle_admin without the last-admin check.
toggle_admin_Unguarded(rows, user_id) ==
    IF \A u \in rows : u.id # user_id
    THEN Outcome("none", rows)
    ELSE Outcome("ok", UpdateUser(rows, user_id,
                    [UserById(rows, user_id) EXCEPT !.is_admin = ~@]))

\* UserService.toggle_admin
toggle_admin(rows, user_id) ==
    IF \A u \in rows : u.id # user_id
    THEN Outcome("none", rows)
    ELSE IF /\ \E u \in rows : u.id = user_id /\ u.is_admin
            /\ count_admins(rows) <= 1
    THEN Outcome("error", rows)
    ELSE Outcome("ok", UpdateUser(rows, user_id,
                    [UserById(rows, user_id) EXCEPT !.is_admin = ~@]))

\* UserService.set_admin
set_admin(rows, user_id, is_admin) ==
    IF \A u \in rows : u.id # user_id
    THEN Outcome("none", rows)
    ELSE IF /\ \E u \in rows : u.id = user_id /\ u.is_admin
            /\ ~is_admin
            /\ count_admins(rows) <= 1
    THEN Outcome("error", rows)
    ELSE Outcome("ok", UpdateUser(rows, user_id,
                    [UserById(rows, user_id) EXCEPT !.is_admin = is_admin]))

\* UserService.deactivate_user
deactivate_user(rows, user_id) ==
    IF \A u \in rows : u.id # user_id
    THEN Outcome("none", rows)
    ELSE IF /\ \E u \in rows : u.id = user_id /\ u.is_admin
            /\ count_admins(rows) <= 1
    THEN Outcome("error", rows)
    ELSE Outcome("ok", UpdateUser(rows, user_id,
                    [UserById(rows, user_id) EXCEPT !.is_active = FALSE]))

\* UserService.activate_user
activate_user(rows, user_id) ==
    IF \A u \in rows : u.id # user_id
    THEN Outcome("none", rows)
    ELSE Outcome("ok", UpdateUser(rows, user_id,
                    [UserById(rows, user_id) EXCEPT !.is_active = TRUE]))

othersUsers == <<now, authCodes, sessions, issued, posts, postCount, fsm,
                 fsmData, media, rest, outbox>>

\* A call of the service, answered.
ServiceCall(op, user_id, r) ==
    /\ users' = r.users
    /\ lastOp' = [op |-> op, user_id |-> user_id, result |-> r.result]
    /\ UNCHANGED othersUsers

ToggleAdmin(user_id) ==
    ServiceCall("toggle_admin", user_id, toggle_admin(users, user_id))

SetAdmin(user_id, is_admin) ==
    ServiceCall("set_admin", user_id, set_admin(users, user_id, is_admin))

DeactivateUser(user_id) ==
    ServiceCall("deactivate_user", user_id, deactivate_user(users, user_id))

ActivateUser(user_id) ==
    ServiceCall("activate_user", user_id, activate_user(users, user_id))

\* The answer of a route to the outcome of the service call: 404 for a
\* missing user, the redirect 302 otherwise; a ValueError is not caught by
\* the routes and ends the request with the server error 500.
StatusOf(r) ==
    IF r.result = "none" THEN 404
    ELSE IF r.result = "error" THEN 500
    ELSE 302

\* POST /admin/users/{user_id}/toggle-admin by the logged-in user req.
AdminToggleAdmin(req, user_id) ==
    /\ \E u \in users : u.id = req
    /\ LET me == CHOOSE u \in users : u.id = req
           r == toggle_admin(users, user_id)
       IN
       IF ~me.is_admin
       THEN /\ lastOp' = [op |-> "admin_toggle_admin", user_id |-> user_id,
                          status |-> 403]
            /\ UNCHANGED users
       ELSE IF user_id = me.id
       THEN /\ lastOp' = [op |-> "admin_toggle_admin", user_id |-> user_id,
                          status |-> 400]
            /\ UNCHANGED users
       ELSE /\ users' = r.users
            /\ lastOp' = [op |-> "admin_toggle_admin", user_id |-> user_id,
                          status |-> StatusOf(r)]
    /\ UNCHANGED othersUsers

\* POST /admin/users/{user_id}/toggle-active by the logged-in user req.
AdminToggleActive(req, user_id) ==
    /\ \E u \in users : u.id = req
    /\ LET me == CHOOSE u \in users : u.id = req
           target == {u \in users : u.id = user_id}
           r == IF \E u \in target : u.is_active
                THEN deactivate_user(users, user_id)
                ELSE activate_user(users, user_id)
       IN
       IF ~me.is_admin
       THEN /\ lastOp' = [op |-> "admin_toggle_active", user_id |-> user_id,
                          status |-> 403]
            /\ UNCHANGED users
       ELSE IF user_id = me.id
       THEN /\ lastOp' = [op |-> "admin_toggle_active", user_id |-> user_id,
                          status |-> 400]
            /\ UNCHANGED users
       ELSE /\ users' = r.users
            /\ lastOp' = [op |-> "admin_toggle_active", user_id |-> user_id,
                          status |-> StatusOf(r)]
    /\ UNCHANGED othersUsers

\* A row of the users table with the given flags.
UserRow(id, is_admin, is_active) ==
    [id |-> id, telegram_id |-> id, display_name |-> DefaultName(id),
     access_level |-> 1, is_admin |-> is_admin, is_active |-> is_active,
     last_login |-> 0]

\* Three users with any flags, at least one of them an active admin.
InitUsers ==
    /\ now = 0
    /\ \E adm, act \in [UserIds -> BOOLEAN] :
        /\ users = {UserRow(i, adm[i], act[i]) : i \in UserIds}
        /\ count_admins(users) >= 1
    /\ authCodes = <<>>
    /\ sessions = {}
    /\ issued = <<>>
    /\ posts = {}
    /\ postCount = 0
    /\ fsm = [c \in TelegramIds |-> "none"]
    /\ fsmData = [c \in TelegramIds |-> EmptyData]
    /\ media = <<>>
    /\ InitRest
    /\ lastOp = NoOp

NextUsers ==
    \/ \E id \in TargetIds : ToggleAdmin(id)
    \/ \E id \in TargetIds, b \in BOOLEAN : SetAdmin(id, b)
    \/ \E id \in TargetIds : DeactivateUser(id)
    \/ \E id \in TargetIds : ActivateUser(id)
    \/ \E req \in UserIds, id \in TargetIds : AdminToggleAdmin(req, id)
    \/ \E req \in UserIds, id \in TargetIds : AdminToggleActive(req, id)

SpecUsers == InitUsers /\ [][NextUsers]_vars

(***************************************************************************)
(* The bot's post flow while the admin panel changes who is an admin.      *)
(***************************************************************************)
\* The accounts of chat 1 and chat 2 are both admins; chat 1 talks to the
\* bot, and either of them uses the admin panel's toggle-admin route.
InitBotAdmin ==
    /\ now = 0
    /\ users = {AdminUser, UserRow(2, TRUE, TRUE)}
    /\ authCodes = <<>>
    /\ sessions = {}
    /\ issued = <<>>
    /\ posts = {}
    /\ postCount = 0
    /\ fsm = [c \in TelegramIds |-> "none"]
    /\ fsmData = [c \in TelegramIds |-> EmptyData]
    /\ media = <<>>
    /\ InitRest
    /\ lastOp = NoOp

NextBotAdmin ==
    \/ BotUpdate(1)
    \/ \E req, id \in {1, 2} : AdminToggleAdmin(req, id)

SpecBotAdmin == InitBotAdmin /\ [][NextBotAdmin]_vars

(***************************************************************************)
(* Comments (src/services/comment.py and the /api/v1/comments routes).     *)
(***************************************************************************)
MAX_COMMENT_LENGTH == 2000
CommentsPerPage == 50
PendingPerPage == 20
MaxReplyDepth == 3

\* bleach.clean(text, tags=[], strip=True).  A tag starts at a "<" that is
\* followed by a letter or "/" and ends at the next ">"; the characters of
\* a tag are dropped, the text between the tags is kept, and the
\* characters "<", ">" and "&" of the text come out as entities.
TagStartChars == {"a", "b", "/"}

TagOpens(s) ==
    {j \in DOMAIN s :
        /\ s[j] = "<"
        /\ j < Len(s)
        /\ s[j + 1] \in TagStartChars
        /\ \E k \in (j + 1)..Len(s) : s[k] = ">"}

\* Position i is inside a tag: a tag opened at or before i and has not
\* been closed before i.
InTag(s, opens, i) ==
    \E j \in opens : j <= i /\ \A k \in j..(i - 1) : s[k] # ">"

EscapeChar(ch) ==
    CASE ch = "<" -> <<"&", "l", "t", ";">>
      [] ch = ">" -> <<"&", "g", "t", ";">>
      [] ch = "&" -> <<"&", "a", "m", "p", ";">>
      [] OTHER -> <<ch>>

\* The output for the positions lo..hi of s: a range without tags and
\* without "<", ">", "&" comes out as it is, a longer one is the output of
\* its halves.
RECURSIVE CleanRange(_, _, _, _)
CleanRange(s, opens, lo, hi) ==
    IF lo > hi THEN <<>>
    ELSE IF opens = {} /\ \A i \in lo..hi : s[i] \notin {"<", ">", "&"}
    THEN SubSeq(s, lo, hi)
    ELSE IF lo = hi
    THEN IF InTag(s, opens, lo) THEN <<>> ELSE EscapeChar(s[lo])
    ELSE LET mid == (lo + hi) \div 2 IN
         CleanRange(s, opens, lo, mid) \o CleanRange(s, opens, mid + 1, hi)

\* A sanitiser that only trims the text.
bleach_clean_Nothing(s) == s

bleach_clean(s) == CleanRange(s, TagOpens(s), 1, Len(s))

\* clean_content of create_comment and update_comment
clean_content(content) == bleach_clean(Strip(content))

\* The ValueError of the length checks, or "ok".
validate_comment(clean) ==
    IF Len(clean) > MAX_COMMENT_LENGTH THEN "too_long"
    ELSE IF clean = <<>> THEN "empty"
    ELSE "ok"

\* CommentService.create_comment: the new row.  parent_id 0 stands for None.
NewComment(rows, post_id, author_id, content, parent_id) ==
    [id |-> Cardinality(rows) + 1, post_id |-> post_id,
     author_id |-> author_id, content |-> clean_content(content),
     parent_id |-> parent_id, is_approved |-> TRUE]

get_comment_by_id(rows, comment_id) == {c \in rows : c.id = comment_id}

\* The rows with column `is_approved` of comment_id set to flag.
SetApproved(rows, comment_id, flag) ==
    {IF c.id = comment_id THEN [c EXCEPT !.is_approved = flag] ELSE c :
        c \in rows}

\* The rows with the content of comment_id replaced.
SetContent(rows, comment_id, content) ==
    {IF c.id = comment_id THEN [c EXCEPT !.content = content] ELSE c :
        c \in rows}

\* A list_post_comments that lists the rejected comments too.
list_post_comments_All(rows, post_id, page, include_unapproved) ==
    Page({c \in rows : c.post_id = post_id /\ c.parent_id = 0},
         page, CommentsPerPage)

\* CommentService.list_post_comments: the top-level comments of the page
\* (the order within the page is not modelled).
list_post_comments(rows, post_id, page, include_unapproved) ==
    Page({c \in rows :
            /\ c.post_id = post_id
            /\ c.parent_id = 0
            /\ (include_unapproved \/ c.is_approved)},
         page, CommentsPerPage)

\* CommentService._load_replies: the replies attached to comment when it is
\* called at the given depth.
load_replies(rows, comment, depth) ==
    IF depth >= MaxReplyDepth THEN {}
    ELSE {c \in rows : c.parent_id = comment.id /\ c.is_approved}

\* CommentService.list_pending_comments
list_pending_comments(rows, page) ==
    Page({c \in rows : ~c.is_approved}, page, PendingPerPage)

\* CommentService.count_post_comments
count_post_comments(rows, post_id) ==
    Cardinality({c \in rows : c.post_id = post_id /\ c.is_approved})

\* The texts the model's clients send as a comment: "<b>a</b>" with a
\* leading blank, "1 < 2", "<b> </b>" (a blank is what is left of it), the
\* empty element "<b></b>", a blank, the longest text that is accepted, and
\* a text one character too long.
CommentContents ==
    {<<" ", "<", "b", ">", "a", "<", "/", "b", ">">>,
     <<"1", " ", "<", " ", "2">>,
     <<"<", "b", ">", " ", "<", "/", "b", ">">>,
     <<"<", "b", ">", "<", "/", "b", ">">>,
     <<" ">>,
     Rep("a", MAX_COMMENT_LENGTH),
     Rep("a", MAX_COMMENT_LENGTH + 1)}

CommentPostIds == {1, 2}
CommentIds == 1..(MaxComments + 1)

othersComments == <<now, users, authCodes, sessions, issued, posts, postCount,
                    fsm, fsmData, media, disk, inflight, outbox>>

\* CommentService.create_comment(post_id, author_id, content, parent_id)
CreateComment(post_id, author_id, content, parent_id) ==
    /\ Cardinality(comments) < MaxComments
    /\ parent_id = 0 \/ get_comment_by_id(comments, parent_id) # {}
    /\ LET v == validate_comment(clean_content(content)) IN
       IF v # "ok"
       THEN /\ lastOp' = [op |-> "create_comment", result |-> "error"]
            /\ UNCHANGED comments
       ELSE /\ comments' = comments \cup
                    {NewComment(comments, post_id, author_id, content,
                                parent_id)}
            /\ lastOp' = [op |-> "create_comment", result |-> "ok"]
    /\ UNCHANGED othersComments

\* CommentService.update_comment(comment_id, content)
UpdateComment(comment_id, content) ==
    /\ LET v == validate_comment(clean_content(content)) IN
       IF get_comment_by_id(comments, comment_id) = {}
       THEN /\ lastOp' = [op |-> "update_comment", result |-> "none"]
            /\ UNCHANGED comments
       ELSE IF v # "ok"
       THEN /\ lastOp' = [op |-> "update_comment", result |-> "error"]
            /\ UNCHANGED comments
       ELSE /\ comments' = SetContent(comments, comment_id,
                                      clean_content(content))
            /\ lastOp' = [op |-> "update_comment", result |-> "ok"]
    /\ UNCHANGED othersComments

\* POST /api/v1/comments/{post_id} by the logged-in user req: 400 for a
\* blank text, the comment's partial (200) otherwise; the ValueError of the
\* service is not caught and ends the request with the server error 500.
\* (The Telegram message to the admins about the comment is no state.)
ApiCreateComment(req, post_id, content) ==
    /\ Cardinality(comments) < MaxComments
    /\ \E u \in users : u.id = req
    /\ LET v == validate_comment(clean_content(content)) IN
       IF Strip(content) = <<>>
       THEN /\ lastOp' = [op |-> "api_create_comment", status |-> 400]
            /\ UNCHANGED comments
       ELSE IF v # "ok"
       THEN /\ lastOp' = [op |-> "api_create_comment", status |-> 500]
            /\ UNCHANGED comments
       ELSE /\ comments' = comments \cup
                    {NewComment(comments, post_id, req, content, 0)}
            /\ lastOp' = [op |-> "api_create_comment", status |-> 200]
    /\ UNCHANGED othersComments

\* POST /api/v1/comments/{comment_id}/approve and .../reject by the
\* logged-in user req; flag is the value the route writes.
Moderate(op, req, comment_id, flag) ==
    /\ \E u \in users : u.id = req
    /\ IF ~UserById(users, req).is_admin
       THEN /\ lastOp' = [op |-> op, status |-> 403]
            /\ UNCHANGED comments
       ELSE IF get_comment_by_id(comments, comment_id) = {}
       THEN /\ lastOp' = [op |-> op, status |-> 404]
            /\ UNCHANGED comments
       ELSE /\ comments' = SetApproved(comments, comment_id, flag)
            /\ lastOp' = [op |-> op, status |-> 200]
    /\ UNCHANGED othersComments

ApiApproveComment(req, comment_id) ==
    Moderate("approve_comment", req, comment_id, TRUE)

ApiRejectComment(req, comment_id) ==
    Moderate("reject_comment", req, comment_id, FALSE)

\* Two published posts, their author (an admin) and a second user.
InitComments ==
    LET first == NewPost({}, 1, 1, <<"A", " ", "-", "b", "!">>, <<"x">>,
                         "public", "published")
    IN
    /\ now = 0
    /\ users = {AdminUser, UserRow(2, FALSE, TRUE)}
    /\ authCodes = <<>>
    /\ sessions = {}
    /\ issued = <<>>
    /\ posts = {first,
                NewPost({first}, 2, 1, <<"A", " ", "-", "b", "!">>, <<"x">>,
                        "public", "published")}
    /\ postCount = 2
    /\ fsm = [c \in TelegramIds |-> "none"]
    /\ fsmData = [c \in TelegramIds |-> EmptyData]
    /\ media = <<>>
    /\ InitRest
    /\ lastOp = NoOp

\* The comment texts of the moderation model: one that is stored (as "a")
\* and one that is refused.
ShortContents ==
    {<<" ", "<", "b", ">", "a", "<", "/", "b", ">">>,
     <<"<", "b", ">", "<", "/", "b", ">">>}

\* Comments and replies are written and moderated.
NextComments ==
    \/ \E p \in CommentPostIds, c \in ShortContents,
          par \in {0} \cup CommentIds :
        CreateComment(p, 2, c, par)
    \/ \E req \in {1, 2}, p \in CommentPostIds, c \in ShortContents :
        ApiCreateComment(req, p, c)
    \/ \E req \in {1, 2}, id \in CommentIds : ApiApproveComment(req, id)
    \/ \E req \in {1, 2}, id \in CommentIds : ApiRejectComment(req, id)

SpecComments == InitComments /\ [][NextComments]_vars

\* Comments are written and edited, with every text of CommentContents.
NextCommentText ==
    \/ \E c \in CommentContents : CreateComment(1, 2, c, 0)
    \/ \E id \in CommentIds, c \in CommentContents : UpdateComment(id, c)
    \/ \E c \in CommentContents : ApiCreateComment(2, 1, c)

SpecCommentText == InitComments /\ [][NextCommentText]_vars

(***************************************************************************)
(* Media uploads: src/services/media.py.  File names are sequences of       *)
(* characters, MIME types are strings ("" for a missing one), sizes are     *)
(* byte counts.  The tables keep the entries the uploads below use.        *)
(***************************************************************************)
IMAGE == <<"i", "m", "a", "g", "e">>
AUDIO == <<"a", "u", "d", "i", "o">>
VIDEO == <<"v", "i", "d", "e", "o">>
MediaTypes == {IMAGE, AUDIO, VIDEO}
NoType == <<>>

ExtPng == <<".", "p", "n", "g">>
ExtJpg == <<".", "j", "p", "g">>
ExtMp3 == <<".", "m", "p", "3">>
ExtOgg == <<".", "o", "g", "g">>
ExtMp4 == <<".", "m", "p", "4">>
ExtBin == <<".", "b", "i", "n">>

ALLOWED_MIME_TYPES(media_type) ==
    CASE media_type = IMAGE -> {"image/jpeg", "image/png"}
      [] media_type = AUDIO -> {"audio/mpeg", "audio/ogg"}
      [] media_type = VIDEO -> {"video/mp4", "video/ogg"}

ALLOWED_EXTENSIONS(media_type) ==
    CASE media_type = IMAGE -> {ExtJpg, ExtPng}
      [] media_type = AUDIO -> {ExtMp3, ExtOgg}
      [] media_type = VIDEO -> {ExtMp4}

max_image_size == 10 * 1024 * 1024
max_audio_size == 50 * 1024 * 1024
max_video_size == 100 * 1024 * 1024

\* [^\w\-.] of sanitize_filename, over the characters of the uploads below.
SafeFileChars == {"a", "b", "g", "i", "j", "m", "n", "o", "p", "3", "4",
                  "_", "-", "."}

RECURSIVE LStripDots(_)
LStripDots(s) ==
    IF s # <<>> /\ Head(s) = "." THEN LStripDots(Tail(s)) ELSE s

\* The names here stay below the 200 characters the function truncates at.
sanitize_filename(filename) ==
    LET replaced == [i \in DOMAIN filename |->
                       IF filename[i] \in {"/", "\\"} THEN "_"
                       ELSE filename[i]]
        stripped == LStripDots(replaced)
        safe == [i \in DOMAIN stripped |->
                   IF stripped[i] \in SafeFileChars THEN stripped[i] ELSE "_"]
    IN IF safe = <<>> THEN <<"u", "n", "n", "a", "m", "e", "d">> ELSE safe

\* os.path.splitext(name)[1]: from the last dot on, unless only dots precede.
splitext(name) ==
    LET dots == {i \in DOMAIN name : name[i] = "."} IN
    IF dots = {} THEN <<>>
    ELSE LET last == CHOOSE i \in dots : \A j \in dots : j <= i IN
         IF \A j \in 1..(last - 1) : name[j] = "." THEN <<>>
         ELSE SubSeq(name, last, Len(name))

\* str.lower() of a MIME type, over the MIME types of the uploads below.
mime_lower(mime_type) ==
    IF mime_type = "IMAGE/PNG" THEN "image/png" ELSE mime_type

get_media_type_from_mime(mime_type) ==
    IF \E t \in MediaTypes : mime_lower(mime_type) \in ALLOWED_MIME_TYPES(t)
    THEN CHOOSE t \in MediaTypes : mime_lower(mime_type) \in ALLOWED_MIME_TYPES(t)
    ELSE NoType

get_media_type_from_extension(filename) ==
    LET ext == Lower(splitext(filename)) IN
    IF \E t \in MediaTypes : ext \in ALLOWED_EXTENSIONS(t)
    THEN CHOOSE t \in MediaTypes : ext \in ALLOWED_EXTENSIONS(t)
    ELSE NoType

\* mimetypes.guess_type(name)[0], "" for None.
guess_type(name) ==
    LET ext == Lower(splitext(name)) IN
    CASE ext = ExtPng -> "image/png"
      [] ext = ExtJpg -> "image/jpeg"
      [] ext = ExtMp3 -> "audio/mpeg"
      [] ext = ExtOgg -> "audio/ogg"
      [] ext = ExtMp4 -> "video/mp4"
      [] ext = ExtBin -> "application/octet-stream"
      [] OTHER -> ""

get_max_size(media_type) ==
    CASE media_type = IMAGE -> max_image_size
      [] media_type = AUDIO -> max_audio_size
      [] media_type = VIDEO -> max_video_size
      [] OTHER -> max_image_size

get_default_ext(media_type) ==
    CASE media_type = IMAGE -> ExtJpg
      [] media_type = AUDIO -> ExtMp3
      [] media_type = VIDEO -> ExtMp4
      [] OTHER -> ExtBin

\* The primary key is a fresh uuid4; the file is named after another one.
\* Both are modelled by the next unused number.
NextMediaId(rows) ==
    IF rows = <<>> THEN 1
    ELSE 1 + (CHOOSE n \in {rows[i].id : i \in DOMAIN rows} :
                 \A i \in DOMAIN rows : rows[i].id <= n)

StoredFile(rows, original_name, media_type) ==
    LET ext == IF Lower(splitext(original_name)) # <<>>
               THEN Lower(splitext(original_name))
               ELSE get_default_ext(media_type)
        unique_filename == DigitString(NextMediaId(rows)) \o ext
        type_dir == media_type \o <<"s">>
    IN [filename |-> unique_filename,
        file_path |-> type_dir \o <<"/">> \o unique_filename]

MediaRecord(rows, name, mtype, mime, size, uploader_id, post_id) ==
    [id |-> NextMediaId(rows), uploader_id |-> uploader_id,
     post_id |-> post_id, sort_order |-> 0, media_type |-> mtype,
     filename |-> StoredFile(rows, name, mtype).filename,
     original_name |-> name,
     file_path |-> StoredFile(rows, name, mtype).file_path,
     file_size |-> size, mime_type |-> mime]

\* The checks of upload_file before anything is stored: "ok" or the
\* ValueError raised.
validate_upload(file) ==
    LET original_name == sanitize_filename(
            IF file.filename = <<>> THEN <<"u", "n", "n", "a", "m", "e", "d">>
            ELSE file.filename)
        content_type == IF file.content_type # "" THEN file.content_type
                        ELSE guess_type(original_name)
        by_mime == get_media_type_from_mime(content_type)
        media_type == IF by_mime # NoType THEN by_mime
                      ELSE get_media_type_from_extension(original_name)
        ext_type == get_media_type_from_extension(original_name)
    IN IF media_type = NoType THEN "unsupported"
       ELSE IF ext_type # NoType /\ ext_type # media_type THEN "mismatch"
       ELSE IF file.size > get_max_size(media_type) THEN "too_big"
       ELSE "ok"

upload_file_NoSizeCheck(rows, files, file, uploader_id, post_id) ==
    LET original_name == sanitize_filename(
            IF file.filename = <<>> THEN <<"u", "n", "n", "a", "m", "e", "d">>
            ELSE file.filename)
        content_type == IF file.content_type # "" THEN file.content_type
                        ELSE guess_type(original_name)
        by_mime == get_media_type_from_mime(content_type)
        media_type == IF by_mime # NoType THEN by_mime
                      ELSE get_media_type_from_extension(original_name)
        ext_type == get_media_type_from_extension(original_name)
        row == MediaRecord(rows, original_name, media_type, content_type,
                           file.size, uploader_id, post_id)
    IN IF media_type = NoType \/ (ext_type # NoType /\ ext_type # media_type)
       THEN [result |-> "ValueError", rows |-> rows, files |-> files]
       ELSE [result |-> "ok", rows |-> Append(rows, row),
             files |-> files \union {row.file_path}]

upload_file(rows, files, file, uploader_id, post_id) ==
    LET original_name == sanitize_filename(
            IF file.filename = <<>> THEN <<"u", "n", "n", "a", "m", "e", "d">>
            ELSE file.filename)
        content_type == IF file.content_type # "" THEN file.content_type
                        ELSE guess_type(original_name)
        by_mime == get_media_type_from_mime(content_type)
        media_type == IF by_mime # NoType THEN by_mime
                      ELSE get_media_type_from_extension(original_name)
        row == MediaRecord(rows, original_name, media_type, content_type,
                           file.size, uploader_id, post_id)
    IN IF validate_upload(file) # "ok"
       THEN [result |-> "ValueError", rows |-> rows, files |-> files]
       ELSE [result |-> "ok", rows |-> Append(rows, row),
             files |-> files \union {row.file_path}]

\* save_from_bytes: the same without the extension check and without the
\* guess of a missing MIME type.
save_from_bytes(rows, files, file, uploader_id, post_id) ==
    LET original_name == sanitize_filename(file.filename)
        by_mime == get_media_type_from_mime(file.content_type)
        media_type == IF by_mime # NoType THEN by_mime
                      ELSE get_media_type_from_extension(original_name)
        row == MediaRecord(rows, original_name, media_type, file.content_type,
                           file.size, uploader_id, post_id)
    IN IF media_type = NoType \/ file.size > get_max_size(media_type)
       THEN [result |-> "ValueError", rows |-> rows, files |-> files]
       ELSE [result |-> "ok", rows |-> Append(rows, row),
             files |-> files \union {row.file_path}]

File(filename, content_type, size) ==
    [filename |-> filename, content_type |-> content_type, size |-> size]

NamePng == <<"a", ".", "p", "n", "g">>
NameMp3 == <<"a", ".", "m", "p", "3">>
NameMp4 == <<"a", ".", "m", "p", "4">>
NameBin == <<"a", ".", "b", "i", "n">>
NameUpDir == <<".", ".", "/", "a", ".", "p", "n", "g">>
NameHidden == <<".", "p", "n", "g">>
NameBare == <<"a">>

Files ==
    { File(NamePng, "image/png", max_image_size),
      File(NamePng, "image/png", max_image_size + 1),
      File(NameMp3, "audio/mpeg", max_audio_size),
      File(NameMp3, "audio/mpeg", max_audio_size + 1),
      File(NameMp4, "video/mp4", max_video_size),
      File(NameMp4, "video/mp4", max_video_size + 1),
      File(NamePng, "", 1),
      File(NamePng, "IMAGE/PNG", 1),
      File(NameBin, "application/octet-stream", 1),
      File(NameMp3, "application/octet-stream", 1),
      File(NameMp3, "image/png", 1),
      File(NameMp3, "image/png", max_image_size + 1),
      File(NameUpDir, "image/png", 1),
      File(NameHidden, "image/png", 1),
      File(NameBare, "video/ogg", 1),
      File(NameBare, "", 1),
      File(<<>>, "audio/ogg", 1) }

MaxUploads == 2

othersUpload == <<now, users, authCodes, sessions, issued, posts, postCount,
                  fsm, fsmData, comments, inflight, outbox>>

\* A call of upload_file: POST /media/upload answers 400 on a ValueError.
UploadFile(file, uploader_id, post_id) ==
    LET r == upload_file(media, disk, file, uploader_id, post_id) IN
    /\ Len(media) < MaxUploads
    /\ media' = r.rows
    /\ disk' = r.files
    /\ lastOp' = [op |-> "upload_file", file |-> file, result |-> r.result]
    /\ UNCHANGED othersUpload

\* A call of save_from_bytes, as the bot's handlers make it.
SaveFromBytes(file, uploader_id, post_id) ==
    LET r == save_from_bytes(media, disk, file, uploader_id, post_id) IN
    /\ Len(media) < MaxUploads
    /\ media' = r.rows
    /\ disk' = r.files
    /\ lastOp' = [op |-> "save_from_bytes", file |-> file, result |-> r.result]
    /\ UNCHANGED othersUpload

InitUpload == InitBot

NextUpload ==
    \/ \E f \in Files, p \in {0, 1} : UploadFile(f, 1, p)
    \/ \E f \in Files : SaveFromBytes(f, 1, 0)

SpecUpload == InitUpload /\ [][NextUpload]_vars

(***************************************************************************)
(* Ownership of media: attach_to_post, detach_from_post, delete_media and   *)
(* the routes of src/api/v1/media.py.  post_id 0 stands for None.           *)
(***************************************************************************)
MediaIndex(rows, media_id) == {i \in DOMAIN rows : rows[i].id = media_id}

media_get_by_id(rows, media_id) == {rows[i] : i \in MediaIndex(rows, media_id)}

SetPostId(rows, media_id, post_id) ==
    [i \in DOMAIN rows |->
        IF rows[i].id = media_id THEN [rows[i] EXCEPT !.post_id = post_id]
        ELSE rows[i]]

attach_to_post_AnyRequester(rows, media_id, post_id, requester_id) ==
    IF media_get_by_id(rows, media_id) = {}
    THEN [result |-> "None", rows |-> rows]
    ELSE [result |-> "media", rows |-> SetPostId(rows, media_id, post_id)]

attach_to_post(rows, media_id, post_id, requester_id) ==
    IF media_get_by_id(rows, media_id) = {}
    THEN [result |-> "None", rows |-> rows]
    ELSE IF \E m \in media_get_by_id(rows, media_id) :
               m.uploader_id # requester_id
    THEN [result |-> "None", rows |-> rows]
    ELSE [result |-> "media", rows |-> SetPostId(rows, media_id, post_id)]

detach_from_post(rows, media_id) ==
    IF media_get_by_id(rows, media_id) = {}
    THEN [result |-> "None", rows |-> rows]
    ELSE [result |-> "media", rows |-> SetPostId(rows, media_id, 0)]

RemoveMedia(rows, media_id) ==
    LET keep == {i \in DOMAIN rows : rows[i].id # media_id}
        \* the position in rows of the k-th kept row
        nth(k) == CHOOSE i \in keep :
                     Cardinality({j \in keep : j <= i}) = k
    IN [k \in 1..Cardinality(keep) |-> rows[nth(k)]]

\* requester_id 0 stands for None; the stored paths are relative paths
\* below upload_dir, so the resolved file is always inside it.
delete_media(rows, files, media_id, requester_id) ==
    IF media_get_by_id(rows, media_id) = {}
    THEN [result |-> FALSE, rows |-> rows, files |-> files]
    ELSE IF /\ requester_id # 0
            /\ \E m \in media_get_by_id(rows, media_id) :
                  m.uploader_id # requester_id
    THEN [result |-> FALSE, rows |-> rows, files |-> files]
    ELSE [result |-> TRUE, rows |-> RemoveMedia(rows, media_id),
          files |-> files \ {m.file_path : m \in media_get_by_id(rows, media_id)}]

MediaRequestIds == 1..(MaxUploads + 1)
MediaPostIds == {1, 2}

othersMedia == <<now, users, authCodes, sessions, issued, posts, postCount,
                 fsm, fsmData, comments, inflight, outbox>>

MediaOp(op, req, media_id, post_id, result) ==
    [op |-> op, req |-> req, media_id |-> media_id, post_id |-> post_id,
     result |-> result]

\* A call of MediaService.attach_to_post.
AttachToPost(media_id, post_id, requester_id) ==
    LET r == attach_to_post(media, media_id, post_id, requester_id) IN
    /\ media' = r.rows
    /\ lastOp' = MediaOp("attach_to_post", requester_id, media_id, post_id,
                         r.result)
    /\ UNCHANGED <<disk, othersMedia>>

\* admin_edit_post's call of detach_from_post.
DetachFromPost(media_id) ==
    LET r == detach_from_post(media, media_id) IN
    /\ media' = r.rows
    /\ lastOp' = MediaOp("detach_from_post", 0, media_id, 0, r.result)
    /\ UNCHANGED <<disk, othersMedia>>

\* POST /media/{media_id}/attach/{post_id} by the logged-in user req.
attach_media_to_post(req, media_id, post_id) ==
    LET user == UserById(users, req)
        found == media_get_by_id(media, media_id)
        requester_id == IF user.is_admin
                        THEN (CHOOSE m \in found : TRUE).uploader_id
                        ELSE user.id
    IN IF found = {}
       THEN /\ lastOp' = MediaOp("api_attach", req, media_id, post_id, 404)
            /\ UNCHANGED <<media, disk, othersMedia>>
       ELSE IF (\E m \in found : m.uploader_id # user.id) /\ ~user.is_admin
       THEN /\ lastOp' = MediaOp("api_attach", req, media_id, post_id, 403)
            /\ UNCHANGED <<media, disk, othersMedia>>
       ELSE /\ media' = attach_to_post(media, media_id, post_id,
                                       requester_id).rows
            /\ lastOp' = MediaOp("api_attach", req, media_id, post_id, 200)
            /\ UNCHANGED <<disk, othersMedia>>

\* DELETE /media/{media_id} by the logged-in user req.
api_delete_media(req, media_id) ==
    LET user == UserById(users, req)
        found == media_get_by_id(media, media_id)
        requester_id == IF user.is_admin
                        THEN (CHOOSE m \in found : TRUE).uploader_id
                        ELSE user.id
        r == delete_media(media, disk, media_id, requester_id)
    IN IF found = {}
       THEN /\ lastOp' = MediaOp("api_delete", req, media_id, 0, 404)
            /\ UNCHANGED <<media, disk, othersMedia>>
       ELSE IF (\E m \in found : m.uploader_id # user.id) /\ ~user.is_admin
       THEN /\ lastOp' = MediaOp("api_delete", req, media_id, 0, 403)
            /\ UNCHANGED <<media, disk, othersMedia>>
       ELSE /\ media' = r.rows
            /\ disk' = r.files
            /\ lastOp' = MediaOp("api_delete", req, media_id, 0, 200)
            /\ UNCHANGED othersMedia

InitMedia ==
    /\ now = 0
    /\ users = {AdminUser, UserRow(2, FALSE, TRUE), UserRow(3, FALSE, TRUE)}
    /\ authCodes = <<>>
    /\ sessions = {}
    /\ issued = <<>>
    /\ posts = {}
    /\ postCount = 0
    /\ fsm = [c \in TelegramIds |-> "none"]
    /\ fsmData = [c \in TelegramIds |-> EmptyData]
    /\ media = <<>>
    /\ InitRest
    /\ lastOp = NoOp

NextMedia ==
    \/ \E u \in {1, 2} : UploadFile(File(NamePng, "image/png", 1), u, 0)
    \/ \E id \in MediaRequestIds, p \in MediaPostIds, u \in UserIds :
          AttachToPost(id, p, u)
    \/ \E id \in MediaRequestIds : DetachFromPost(id)
    \/ \E req \in UserIds, id \in MediaRequestIds, p \in MediaPostIds :
          attach_media_to_post(req, id, p)
    \/ \E req \in UserIds, id \in MediaRequestIds : api_delete_media(req, id)

SpecMedia == InitMedia /\ [][NextMedia]_vars

(***************************************************************************)
(* The publishing handlers with users to notify: an admin, an active        *)
(* premium user and a premium user who is not active.                      *)
(***************************************************************************)
InitNotify ==
    /\ now = 0
    /\ users = {AdminUser,
                [UserRow(2, FALSE, TRUE) EXCEPT !.access_level = PREMIUM_1],
                [UserRow(3, FALSE, FALSE) EXCEPT !.access_level = PREMIUM_2]}
    /\ authCodes = <<>>
    /\ sessions = {}
    /\ issued = <<>>
    /\ posts = {}
    /\ postCount = 0
    /\ fsm = [c \in TelegramIds |-> "none"]
    /\ fsmData = [c \in TelegramIds |-> EmptyData]
    /\ media = <<>>
    /\ InitRest
    /\ lastOp = NoOp

NotifyVisibilities == {"public", "premium_2"}
NotifyStatuses == {"draft", "published"}

NextNotify ==
    \/ BotUpdate(1)
    \/ \E t \in PostTitles, c \in PostContents, v \in NotifyVisibilities,
          st \in NotifyStatuses : AdminCreatePost(t, c, v, st)
    \/ \E p \in posts, t \in PostTitles, c \in PostContents,
          v \in NotifyVisibilities, st \in NotifyStatuses :
            AdminUpdatePost(p, t, c, v, st)

SpecNotify == InitNotify /\ [][NextNotify]_vars

(***************************************************************************)
(* Slugs: the admin's create, edit and delete over titles whose slugs      *)
(* collide ("a-b", "a-b-1" and the empty slug).                             *)
(***************************************************************************)
SlugTitles == {<<"A", " ", "-", "b", "!">>, <<"a", " ", "b", " ", "1">>,
               <<"!">>}

NextSlugs ==
    \/ \E t \in SlugTitles, c \in PostContents :
          AdminCreatePost(t, c, "public", "draft")
    \/ \E p \in posts, t \in SlugTitles \cup {<<>>}, c \in PostContents,
          st \in {"draft", "published"} :
            AdminUpdatePost(p, t, c, "public", st)
    \/ \E p \in posts : AdminDeletePost(p)

SpecSlugs == InitPosts /\ [][NextSlugs]_vars

(***************************************************************************)
(* Concurrent verification.  Each request runs on its own database         *)
(* session (get_db); its SELECT and its writes are separate steps, and     *)
(* requests that have read and not yet written wait in inflight.  The      *)
(* UPDATE a request flushes is "SET used = true WHERE id = ...": it does   *)
(* not look at the value of used again.                                    *)
(***************************************************************************)
MaxRequests == 2

othersVerify == <<now, posts, postCount, fsm, fsmData, media, comments, disk,
                  outbox>>

Pending(endpoint, tg, ncode, row) ==
    [endpoint |-> endpoint, telegram_id |-> tg, code |-> ncode, row |-> row]

\* POST /verify up to the SELECT of verify_auth_code.
VerifyRead(tg, code) ==
    LET ncode == normalize_code(code)
        found == SelectAuthCode(tg, ncode)
    IN
    /\ Len(inflight) < MaxRequests
    /\ IF found = {}
       THEN /\ lastOp' = [op |-> "verify", ok |-> FALSE, telegram_id |-> tg,
                          code |-> ncode, row |-> 0]
            /\ UNCHANGED inflight
       ELSE /\ Cardinality(found) = 1
            /\ inflight' = Append(inflight,
                    Pending("verify", tg, ncode, CHOOSE x \in found : TRUE))
            /\ lastOp' = [op |-> "verify_read", telegram_id |-> tg,
                          code |-> ncode]
    /\ UNCHANGED <<users, authCodes, sessions, issued, othersVerify>>

\* POST /verify-by-code up to its SELECT.
VerifyByCodeRead(code) ==
    LET ncode == normalize_code(code)
        found == SelectAuthCodeByCode(ncode)
    IN
    /\ Len(inflight) < MaxRequests
    /\ IF Cardinality(found) # 1
       THEN /\ lastOp' = [op |-> "verify", ok |-> FALSE, telegram_id |-> 0,
                          code |-> ncode, row |-> 0]
            /\ UNCHANGED inflight
       ELSE /\ inflight' = Append(inflight,
                    Pending("verify_by_code",
                            authCodes[CHOOSE x \in found : TRUE].telegram_id,
                            ncode, CHOOSE x \in found : TRUE))
            /\ lastOp' = [op |-> "verify_read", telegram_id |-> 0,
                          code |-> ncode]
    /\ UNCHANGED <<users, authCodes, sessions, issued, othersVerify>>

RemoveAt(seq, k) ==
    [i \in 1..(Len(seq) - 1) |-> IF i < k THEN seq[i] ELSE seq[i + 1]]

\* The rest of either request: auth_code.used = True, get or create the
\* user, last_login, commit, create_session.
VerifyFinish(k) ==
    LET r == inflight[k] IN
    /\ authCodes' = MarkUsed(authCodes, r.row)
    /\ users' = LoginUser(r.telegram_id)
    /\ sessions' = sessions \cup
          {NewSession(UserIdOf(users', r.telegram_id), NextToken, r.row)}
    /\ issued' = Append(issued, UserIdOf(users', r.telegram_id))
    /\ inflight' = RemoveAt(inflight, k)
    /\ lastOp' = [op |-> "verify", ok |-> TRUE,
                  telegram_id |-> IF r.endpoint = "verify"
                                  THEN r.telegram_id ELSE 0,
                  code |-> r.code, row |-> r.row]
    /\ UNCHANGED othersVerify

\* /login as in CmdLogin, beside requests in flight.
VerifyLogin(tg, code) ==
    /\ Len(authCodes) < MaxCodes
    /\ users' = IF get_user_by_telegram_id(tg) = {}
                THEN users \cup {NewUser(tg, FullName(tg))}
                ELSE users
    /\ authCodes' = create_auth_code(authCodes, tg, code)
    /\ lastOp' = [op |-> "create_code", telegram_id |-> tg]
    /\ UNCHANGED <<sessions, issued, inflight, othersVerify>>

NextVerify ==
    \/ \E tg \in TelegramIds, c \in GeneratedCodes : VerifyLogin(tg, c)
    \/ \E tg \in TelegramIds, c \in GeneratedCodes : VerifyRead(tg, c)
    \/ \E c \in GeneratedCodes : VerifyByCodeRead(c)
    \/ \E k \in DOMAIN inflight : VerifyFinish(k)

SpecVerify == InitAuth /\ [][NextVerify]_vars

(***************************************************************************)
(* The bot's flow with titles between the two limits: the title step takes *)
(* up to 256 characters, create_post up to MAX_TITLE_LENGTH.               *)
(***************************************************************************)
LongTitleMessages == {Text(Rep("a", MAX_TITLE_LENGTH + 1)),
                      Text(Rep("a", TitleMaxLength))}

NextBotTitles ==
    \/ BotUpdate(1)
    \/ \E m \in LongTitleMessages : process_title(1, m)

SpecBotTitles == InitBot /\ [][NextBotTitles]_vars

(***************************************************************************)
(* The publish button pressed twice.  Updates are handled as concurrent    *)
(* tasks; the state a callback is filtered on is read before the handler   *)
(* runs, and get_data, clear and the database calls of the handler are     *)
(* awaits at which another task may run (the storage of                    *)
(* scripts/run_bot_polling.py is Redis).  A callback that has passed the   *)
(* filter waits in inflight with what it has read so far; base is a        *)
(* history field, the number of posts when it passed the filter.  While    *)
(* callbacks are in flight the chat sends nothing but further presses.     *)
(***************************************************************************)
othersRace == <<now, users, authCodes, sessions, issued, comments, disk>>

Task(chat, data, pc, d, base) ==
    [chat |-> chat, data |-> data, pc |-> pc, d |-> d, base |-> base]

\* The dispatcher reads the state, and the filters of
\* process_publish_choice pass.
PublishFiltered(chat, data) ==
    /\ Len(inflight) < MaxRequests
    /\ RouteCallback(fsm[chat], data) = "process_publish_choice"
    /\ inflight' = Append(inflight,
            Task(chat, data, "filtered", EmptyData, postCount))
    /\ lastOp' = NoOp
    /\ UNCHANGED <<posts, postCount, fsm, fsmData, media, outbox, othersRace>>

\* data = await state.get_data()
PublishGetData(k) ==
    /\ inflight[k].pc = "filtered"
    /\ inflight' = [inflight EXCEPT ![k].pc = "got_data",
                                    ![k].d = fsmData[inflight[k].chat]]
    /\ lastOp' = NoOp
    /\ UNCHANGED <<posts, postCount, fsm, fsmData, media, outbox, othersRace>>

\* await state.clear()
PublishClear(k) ==
    /\ inflight[k].pc = "got_data"
    /\ fsm' = clear(fsm, inflight[k].chat, "none")
    /\ fsmData' = clear(fsmData, inflight[k].chat, EmptyData)
    /\ inflight' = [inflight EXCEPT ![k].pc = "cleared"]
    /\ lastOp' = NoOp
    /\ UNCHANGED <<posts, postCount, media, outbox, othersRace>>

\* The rest of the handler: the user is looked up and the post created from
\* the data read.  data["title"] raises KeyError on data read after another
\* task's clear, create_post raises ValueError on a long title.
PublishCreate(k) ==
    LET t == inflight[k]
        d == t.d
        user == get_user_by_telegram_id(t.chat)
        reply == IF user = {} THEN "user_not_found"
                 ELSE IF "title" \notin DOMAIN d THEN "error"
                 ELSE IF Len(d.title) > MAX_TITLE_LENGTH THEN "error"
                 ELSE "post_created"
    IN
    /\ t.pc = "cleared"
    /\ inflight' = RemoveAt(inflight, k)
    /\ lastOp' = [op |-> "process_publish_choice", reply |-> reply]
    /\ IF reply # "post_created"
       THEN UNCHANGED <<posts, postCount, media, outbox>>
       ELSE /\ postCount < MaxPosts
            /\ posts' = posts \cup
                  {NewPost(posts, postCount + 1, UserIdOf(users, t.chat),
                           d.title, d.content, d.visibility,
                           IF t.data = "publish_now" THEN "published"
                           ELSE "draft")}
            /\ postCount' = postCount + 1
            /\ outbox' = IF t.data = "publish_now"
                         THEN outbox \cup notify_post_published(users,
                                 NewPost(posts, postCount + 1,
                                         UserIdOf(users, t.chat), d.title,
                                         d.content, d.visibility,
                                         "published")).sent
                         ELSE outbox
            /\ media' = attach_media(media, d, postCount + 1,
                                     UserIdOf(users, t.chat))
    /\ UNCHANGED <<fsm, fsmData, othersRace>>

NextPublishRace ==
    \/ inflight = <<>> /\ BotUpdate(1)
    \/ \E d \in PublishData : PublishFiltered(1, d)
    \/ \E k \in DOMAIN inflight : PublishGetData(k)
    \/ \E k \in DOMAIN inflight : PublishClear(k)
    \/ \E k \in DOMAIN inflight : PublishCreate(k)
    \/ inflight # <<>> /\ \E d \in PublishData : handle_stale_callback(1, d)

SpecPublishRace == InitBot /\ [][NextPublishRace]_vars

(***************************************************************************)
(* Properties of the login codes.                                          *)
(***************************************************************************)
\* The step just taken is a verification request (either endpoint).
IsVerify(op) == op.op = "verify"

SessionsOfRow(ss, i) == {s \in ss : s.code_row = i}

\* C1: an auth code is one-time.  Once a code (a row of auth_codes) is used,
\* it stays used, no later verification request succeeds with it, and no
\* session is created from it; a code yields at most one session.  This holds
\* for every later operation, and also when the same 8 characters happen to
\* be issued again: the new code is another row.
C1_OneTimeCode ==
    /\ [](\A i \in DOMAIN authCodes : Cardinality(SessionsOfRow(sessions, i)) <= 1)
    /\ [][\A i \in DOMAIN authCodes :
            authCodes[i].used =>
                /\ authCodes'[i].used
                /\ ~(IsVerify(lastOp') /\ lastOp'.ok /\ lastOp'.row = i)
                /\ SessionsOfRow(sessions', i) = SessionsOfRow(sessions, i)]_vars

\* C1 witness: a code was exchanged for a session, and a later request with
\* the same, still unexpired, code has just been refused.
C1_Witness ==
    /\ IsVerify(lastOp) /\ ~lastOp.ok
    /\ \E i \in DOMAIN authCodes :
        /\ authCodes[i].code = lastOp.code
        /\ authCodes[i].used
        /\ authCodes[i].expires_at > now
        /\ SessionsOfRow(sessions, i) # {}
        /\ \A j \in DOMAIN authCodes : authCodes[j].code = lastOp.code => j = i

\* C2: codes expire, and a failed verification changes nothing.  A request
\* succeeds only with a row that matches the normalised code (and the
\* telegram_id when one is given), is unused and has expires_at > now, where
\* expires_at is the issue time plus auth_code_expire_minutes; a refused
\* request leaves users (last_login included), auth_codes and sessions as
\* they were.
C2_ExpiryAndFailure ==
    /\ [](\A i \in DOMAIN authCodes :
            authCodes[i].expires_at
                = authCodes[i].created_at + auth_code_expire_minutes)
    /\ [][IsVerify(lastOp') =>
            IF lastOp'.ok
            THEN /\ lastOp'.row \in DOMAIN authCodes
                 /\ authCodes[lastOp'.row].code = lastOp'.code
                 /\ lastOp'.telegram_id
                        \in {0, authCodes[lastOp'.row].telegram_id}
                 /\ ~authCodes[lastOp'.row].used
                 /\ now < authCodes[lastOp'.row].expires_at
            ELSE UNCHANGED <<users, authCodes, sessions, issued>>]_vars

\* C2 witness: a request made at exactly expires_at, for a code that is
\* otherwise valid (unused, the only row with these characters), was refused.
C2_Witness ==
    /\ IsVerify(lastOp) /\ ~lastOp.ok
    /\ \E i \in DOMAIN authCodes :
        /\ authCodes[i].code = lastOp.code
        /\ lastOp.telegram_id \in {0, authCodes[i].telegram_id}
        /\ ~authCodes[i].used
        /\ authCodes[i].expires_at = now

\* C3: issuing a new code invalidates the earlier ones.  Each telegram_id has
\* at most one unused code and it is the one issued last for it; a request
\* never succeeds with a code that was issued before the latest one of the
\* same telegram_id.
C3_LatestCodeOnly ==
    /\ [](\A i, j \in DOMAIN authCodes :
            (i < j /\ authCodes[i].telegram_id = authCodes[j].telegram_id)
                => authCodes[i].used)
    /\ [][(IsVerify(lastOp') /\ lastOp'.ok) =>
            \A j \in DOMAIN authCodes :
                authCodes[j].telegram_id = authCodes[lastOp'.row].telegram_id
                    => j <= lastOp'.row]_vars

\* C3 witness: the older of two codes of one telegram_id, never exchanged and
\* not yet expired, has just been refused, while the newer one is unused.
C3_Witness ==
    /\ IsVerify(lastOp) /\ ~lastOp.ok
    /\ \E i, j \in DOMAIN authCodes :
        /\ i < j
        /\ authCodes[i].telegram_id = authCodes[j].telegram_id
        /\ authCodes[i].code = lastOp.code
        /\ authCodes[j].code # lastOp.code
        /\ authCodes[i].expires_at > now
        /\ SessionsOfRow(sessions, i) = {}
        /\ authCodes[i].used /\ ~authCodes[j].used

(***************************************************************************)
(* Properties of the sessions.                                             *)
(***************************************************************************)
IssuedTokens == 1..Len(issued)

RowsOfToken(t) == {s \in sessions : s.token_hash = hash_token(t)}

\* C4: session tokens are stored hashed and authenticate exactly their
\* owner while unexpired.  Every stored token_hash is the hash of a generated
\* token and is not the token; get_user_by_session_token(t) answers user u
\* exactly when a row with token_hash = hash_token(t), user_id = u and
\* expires_at > now exists, u is then the user the token was generated for,
\* and an unknown or expired token answers None (0).
C4_SessionLookup ==
    /\ \A s \in sessions :
        /\ s.token_hash \notin Tokens
        /\ \E t \in IssuedTokens :
            s.token_hash = hash_token(t) /\ s.user_id = issued[t]
    /\ lastOp.op = "get_user" =>
        /\ \A u \in {x.id : x \in users} :
            (lastOp.result = u) <=>
                \E s \in RowsOfToken(lastOp.token) :
                    s.user_id = u /\ s.expires_at > now
        /\ lastOp.result # 0 =>
            /\ lastOp.token \in IssuedTokens
            /\ issued[lastOp.token] = lastOp.result
        /\ lastOp.result = 0 =>
            \A s \in RowsOfToken(lastOp.token) : s.expires_at <= now

\* C4 witness: a lookup with a token whose session row is still stored but
\* has reached expires_at has answered None.
C4_Witness ==
    /\ lastOp.op = "get_user" /\ lastOp.result = 0
    /\ \E s \in RowsOfToken(lastOp.token) : s.expires_at = now

\* C4 second witness: a lookup has answered the owner of the token.
C4_WitnessFound ==
    /\ lastOp.op = "get_user" /\ lastOp.result # 0
    /\ Cardinality(sessions) = 2

\* A token is revoked when it was generated and its row is gone; rows are
\* removed by invalidate_session only.
Revoked(t) == t \in IssuedTokens /\ RowsOfToken(t) = {}

\* C5: logout invalidates the session.  invalidate_session(t) answers True
\* exactly when a row with the hash of t exists, and then removes that row
\* and no other; it answers False and changes nothing otherwise; a revoked
\* token stays revoked and get_user_by_session_token answers None for it.
C5_Logout ==
    /\ [](lastOp.op = "get_user" /\ Revoked(lastOp.token) => lastOp.result = 0)
    /\ [][\A t \in Tokens : Revoked(t) => Revoked(t)']_vars
    /\ [][lastOp'.op = "logout" =>
            IF lastOp'.result
            THEN /\ Cardinality(RowsOfToken(lastOp'.token)) = 1
                 /\ sessions' = sessions \ RowsOfToken(lastOp'.token)
                 /\ lastOp'.token \in IssuedTokens
            ELSE /\ RowsOfToken(lastOp'.token) = {}
                 /\ sessions' = sessions]_vars

\* C5 witness: after a logout the revoked token is looked up and answers
\* None, while another session of the same user is still stored.
C5_Witness ==
    /\ lastOp.op = "get_user" /\ lastOp.result = 0
    /\ Revoked(lastOp.token)
    /\ \E s \in sessions : s.user_id = issued[lastOp.token]

\* C5 second witness: a logout with a token that has no session row (here
\* an already revoked one) has answered False.
C5_WitnessFalse ==
    /\ lastOp.op = "logout" /\ ~lastOp.result
    /\ Revoked(lastOp.token)
    /\ sessions # {}


(***************************************************************************)
(* Properties of the post queries (SpecPosts).                             *)
(***************************************************************************)
Rank(v) ==
    CASE v = "public" -> 0
      [] v = "registered" -> 1
      [] v = "premium_1" -> 2
      [] v = "premium_2" -> 3

MatchesQuery(p, q) == Words(q, <<>>) # {} /\ Words(q, <<>>) \subseteq p.search_vector

\* C6: for every access level L and every published post of visibility V,
\* get_post_by_slug (asked for the post's slug), list_posts (first page) and
\* search_posts (first page of a query the post matches) each return the
\* post at level L exactly when rank(V) <= L, so the three agree.
C6_VisibilityIsMinimumLevel ==
    \A L \in AccessLevels : \A p \in posts :
        p.status = "published" =>
            /\ (p \in get_post_by_slug(p.slug, L)) <=> (Rank(p.visibility) <= L)
            /\ (p \in list_posts(L, 1, PerPagePublic, FALSE))
                    <=> (Rank(p.visibility) <= L)
            /\ \A q \in Queries :
                 MatchesQuery(p, q) =>
                    ((p \in search_posts(q, L, 1, PerPagePublic))
                        <=> (Rank(p.visibility) <= L))

\* A published premium_2 post that a search just answered: level PREMIUM_1
\* gets it from none of the three operations, level PREMIUM_2 from all.
C6_Witness ==
    /\ lastOp.op = "search"
    /\ lastOp.any
    /\ \E p \in posts : \E q \in Queries :
        /\ p.status = "published"
        /\ p.visibility = "premium_2"
        /\ MatchesQuery(p, q)
        /\ get_post_by_slug(p.slug, PREMIUM_1) = {}
        /\ p \notin list_posts(PREMIUM_1, 1, PerPagePublic, FALSE)
        /\ p \notin search_posts(q, PREMIUM_1, 1, PerPagePublic)
        /\ get_post_by_slug(p.slug, PREMIUM_2) = {p}
        /\ p \in list_posts(PREMIUM_2, 1, PerPagePublic, FALSE)
        /\ p \in search_posts(q, PREMIUM_2, 1, PerPagePublic)

\* C7: a draft or archived post is in the answer of no public route
\* (/posts/{slug}, /partials/posts, /search, /partials/search-results) for
\* any requester, admins included; an admin's effective level is PREMIUM_2
\* and anyone else's is their own; the admin dashboard lists every post,
\* drafts included, and only to an admin.
C7_DraftsNotPublic ==
    /\ \A u \in Requesters : \A p \in posts :
        p.status # "published" =>
            /\ \A sl \in Slugs \cup {p.slug} : p \notin post_detail(u, sl)
            /\ \A pg \in Pages : p \notin posts_partial(u, pg)
            /\ \A q \in Queries : \A pg \in Pages :
                    /\ p \notin search_page(u, q, pg)
                    /\ p \notin search_results_partial(u, q, pg)
    /\ \A u \in Requesters :
        /\ effective_access_level(u) =
              IF u = Anonymous THEN PUBLIC
              ELSE IF u.is_admin THEN PREMIUM_2 ELSE u.access_level
        /\ admin_dashboard(u) =
              IF u # Anonymous /\ u.is_admin THEN posts ELSE {}
    /\ lastOp.op = "post_detail" /\ lastOp.status = 200 =>
            \E p \in posts : p.status = "published"

\* An admin was just answered 404 for a slug, while a post with status draft
\* and a post with status archived exist and the dashboard lists both.
C7_Witness ==
    /\ lastOp.op = "post_detail"
    /\ lastOp.status = 404
    /\ \E d \in posts : \E a \in posts :
        /\ d.status = "draft"
        /\ a.status = "archived"
        /\ post_detail([access_level |-> PUBLIC, is_admin |-> TRUE], d.slug) = {}
        /\ post_detail([access_level |-> PUBLIC, is_admin |-> TRUE], a.slug) = {}
        /\ {d, a} \subseteq admin_dashboard([access_level |-> PUBLIC, is_admin |-> TRUE])


(***************************************************************************)
(* Properties of the bot's conversations (SpecBot).                        *)
(***************************************************************************)
\* The steps of the post-creation flow, in order; confirm_save_audio is
\* entered only by a voice-type post, and a text-type post passes it by.
Forward(s, t, data) ==
    \/ s = "waiting_for_type" /\ t = "waiting_for_title"
    \/ s = "waiting_for_title" /\ t = "waiting_for_content"
    \/ /\ s = "waiting_for_content"
       /\ t = "confirm_save_audio"
       /\ get(data, "post_type", "text") = "voice"
    \/ /\ s = "waiting_for_content"
       /\ t = "waiting_for_visibility"
       /\ get(data, "post_type", "text") # "voice"
    \/ s = "confirm_save_audio" /\ t = "waiting_for_visibility"
    \/ s = "waiting_for_visibility" /\ t = "waiting_for_media"
    \/ s = "waiting_for_media" /\ t = "waiting_for_publish_choice"

\* The other ways out of a step that the flow's description names: restart
\* by /newpost, clearing by /cancel or the menu_back_clear button.
NamedExit(c) ==
    \/ /\ cmd_newpost(c, Text(NewpostText))
       /\ fsm'[c] = "waiting_for_type"
    \/ /\ cmd_cancel(c, Text(CancelText))
       /\ fsm'[c] = "none"
    \/ /\ callback_menu_back_clear(c, "menu_back_clear")
       /\ fsm'[c] = "none"

\* The ways out that the handlers have besides: the menu's "new post"
\* button restarts, the menu's "change nickname" button moves the chat to
\* the nickname flow, and the publish callback clears the state itself.
OtherExit(c) ==
    \/ /\ callback_menu_newpost(c, "menu_newpost")
       /\ fsm'[c] = "waiting_for_type"
    \/ /\ callback_menu_nickname(c, "menu_nickname")
       /\ fsm'[c] = "waiting_for_nickname"
    \/ /\ \E d \in PublishData : process_publish_choice(c, d)
       /\ fsm[c] = "waiting_for_publish_choice"
       /\ fsm'[c] = "none"

InvalidTitle(m) ==
    \/ m.kind # "text"
    \/ Len(Strip(m.text)) < 3
    \/ Len(Strip(m.text)) > 256

\* Chat c sent an invalid input to a step: a non-text, too short or too
\* long title; a too short text, or a text for a voice post; a recording
\* for a text post, or one whose download or transcription failed.
InvalidInputHandled(c) ==
    \/ \E m \in TitleMessages : InvalidTitle(m) /\ process_title(c, m)
    \/ \E m \in ContentMessages :
        /\ m.kind = "text"
        /\ (Len(Strip(m.text)) < 10
                \/ get(fsmData[c], "post_type", "text") = "voice")
        /\ process_content_text(c, m)
    \/ \E m \in ContentMessages : \E o \in ContentOutcomes :
        /\ (o # "ok" \/ get(fsmData[c], "post_type", "text") # "voice")
        /\ process_content_media(c, m, o)

\* An invalid input at a step leaves the states and the stored data as
\* they were.
InvalidInputKeepsState ==
    (fsm' # fsm \/ fsmData' # fsmData) =>
        \A c \in TelegramIds : ~InvalidInputHandled(c)

\* A post is created only by publish_now / publish_draft received in
\* waiting_for_publish_choice.
CreatedOnlyByPublish ==
    posts' # posts =>
        \E c \in TelegramIds : \E d \in PublishData :
            /\ fsm[c] = "waiting_for_publish_choice"
            /\ process_publish_choice(c, d)

\* C8 as stated: a chat leaves a post-creation step only forward in the
\* order type, title, content, (confirm_save_audio for voice), visibility,
\* media, publish choice, or by /newpost (restart), /cancel or
\* menu_back_clear (clearing); invalid input keeps the state; a post is
\* created only by the publish callback in waiting_for_publish_choice.
C8_OnlyNamedExits ==
    [][/\ \A c \in TelegramIds :
            (fsm[c] \in PostCreationStates /\ fsm'[c] # fsm[c]) =>
                    Forward(fsm[c], fsm'[c], fsmData[c]) \/ NamedExit(c)
       /\ InvalidInputKeepsState
       /\ CreatedOnlyByPublish]_vars

\* C8, amended: the same, where the ways out of a step are the forward
\* step, /newpost or the menu_newpost button (restart), /cancel or
\* menu_back_clear (clearing), the menu_nickname button (to
\* waiting_for_nickname) and the publish callback (clearing).
C8_FlowOrder ==
    [][/\ \A c \in TelegramIds :
            (fsm[c] \in PostCreationStates /\ fsm'[c] # fsm[c]) =>
                    \/ Forward(fsm[c], fsm'[c], fsmData[c])
                    \/ NamedExit(c)
                    \/ OtherExit(c)
       /\ InvalidInputKeepsState
       /\ CreatedOnlyByPublish]_vars

\* A voice post went through the whole flow: it exists, its recording is
\* attached to it, and the chat is back to no state.
C8_Witness ==
    /\ fsm[1] = "none"
    /\ \E p \in posts :
        /\ p.status = "published"
        /\ Len(media) >= 1
        /\ media[1].post_id = p.id

\* C9: every chat has exactly one state, which is none, a PostCreation step
\* or waiting_for_nickname; entering the nickname flow from a post-creation
\* step, or the post flow from waiting_for_nickname, replaces the state;
\* and an update handled for one chat leaves the state and the data of
\* every other chat as they were.
C9_OneStatePerChat ==
    /\ [](\A c \in TelegramIds :
            fsm[c] \in {"none"} \cup PostCreationStates \cup NicknameChangeStates)
    /\ [][\A c \in TelegramIds :
            /\ (/\ fsm[c] \in PostCreationStates
                /\ get_user_by_telegram_id(c) # {}
                /\ callback_menu_nickname(c, "menu_nickname"))
                => fsm'[c] = "waiting_for_nickname"
            /\ (/\ fsm[c] \in NicknameChangeStates
                /\ IsAdmin(c)
                /\ callback_menu_newpost(c, "menu_newpost"))
                => fsm'[c] = "waiting_for_type"
            /\ (fsm'[c] # fsm[c] \/ fsmData'[c] # fsmData[c]) =>
                \A c2 \in TelegramIds \ {c} : ~BotUpdate(c2)]_vars

\* Chat 1 left the post flow for the nickname flow with a title already
\* stored, while chat 2 waits for a nickname too.
C9_Witness ==
    /\ fsm[1] = "waiting_for_nickname"
    /\ "title" \in DOMAIN fsmData[1]
    /\ fsm[2] = "waiting_for_nickname"

\* C10: a /cancel message in an active state (a PostCreation step or
\* waiting_for_nickname) clears the chat's state and data and changes
\* nothing else (no post, no nickname, no media row); with no active state
\* it is answered "nothing to cancel" and changes nothing.
C10_CancelOnlyClears ==
    [][\A c \in TelegramIds :
        DeliverMessage(c, Text(CancelText)) =>
            IF fsm[c] # "none"
            THEN /\ fsm' = [fsm EXCEPT ![c] = "none"]
                 /\ fsmData' = [fsmData EXCEPT ![c] = EmptyData]
                 /\ UNCHANGED <<users, posts, postCount, media>>
            ELSE /\ lastOp'.reply = "nothing_to_cancel"
                 /\ UNCHANGED <<users, posts, postCount, fsm, fsmData, media>>]_vars

\* /cancel in a PostCreation step works as described.
C10_CancelInPostFlow ==
    [][\A c \in TelegramIds :
        (fsm[c] \in PostCreationStates /\ DeliverMessage(c, Text(CancelText))) =>
            /\ fsm' = [fsm EXCEPT ![c] = "none"]
            /\ fsmData' = [fsmData EXCEPT ![c] = EmptyData]
            /\ lastOp' = [op |-> "cmd_cancel", reply |-> "cancelled"]
            /\ UNCHANGED <<users, posts, postCount, media>>]_vars

\* The nickname of a user is the text "/cancel".
C10_Witness ==
    \E u \in users : u.display_name = CancelText

(***************************************************************************)
(* Properties of the user administration (SpecUsers).                      *)
(***************************************************************************)
\* User id is the only active admin.
LastAdmin(id) ==
    /\ count_admins(users) = 1
    /\ \E u \in users : u.id = id /\ u.is_admin /\ u.is_active

\* The step is a refused call: ValueError, and no row written.
Refused == lastOp'.result = "error" /\ users' = users

\* C17: the last admin cannot be removed.  From a state with at least one
\* active admin, every sequence of toggle_admin, set_admin, deactivate_user
\* and activate_user calls keeps at least one active admin; the call that
\* would remove the last one raises ValueError, and a call that raises
\* leaves every user's is_admin and is_active as they were.
C17_LastAdminKept ==
    /\ [](count_admins(users) >= 1)
    /\ [][/\ \A id \in UserIds :
                LastAdmin(id) =>
                    /\ ToggleAdmin(id) => Refused
                    /\ SetAdmin(id, FALSE) => Refused
                    /\ DeactivateUser(id) => Refused
          /\ ("result" \in DOMAIN lastOp' /\ lastOp'.result = "error")
                => users' = users]_vars

\* deactivate_user has just been refused for the only active admin, while
\* another admin exists who is not active.
C17_Witness ==
    /\ lastOp.op = "deactivate_user"
    /\ lastOp.result = "error"
    /\ LastAdmin(lastOp.user_id)
    /\ \E u \in users : u.is_admin /\ ~u.is_active

(***************************************************************************)
(* Properties of the bot's post flow under admin changes (SpecBotAdmin).   *)
(***************************************************************************)
\* Chat c, whose account is missing or is not an admin, asks for a new post.
NonAdminNewpost(c) ==
    /\ ~IsAdmin(c)
    /\ \/ cmd_newpost(c, Text(NewpostText))
       \/ callback_menu_newpost(c, "menu_newpost")

\* C11: only administrators create posts through the bot.  The author of a
\* post that a step creates is an admin at that step, and /newpost or the
\* menu_newpost button of a non-admin leaves the chat's state as it was.
C11_OnlyAdminsCreate ==
    [][/\ \A p \in posts' \ posts :
            \E u \in users' : u.id = p.author_id /\ u.is_admin
       /\ \A c \in TelegramIds : NonAdminNewpost(c) => fsm'[c] = fsm[c]]_vars

\* The part of C11 about entering the flow.
C11_NewpostNeedsAdmin ==
    [][\A c \in TelegramIds :
        NonAdminNewpost(c) => (fsm'[c] = fsm[c] /\ posts' = posts)]_vars

\* A post has just been created by a user who is not an admin.
C11_Witness ==
    /\ lastOp = NoOp
    /\ fsm[1] = "none"
    /\ \E p \in posts : \E u \in users : u.id = p.author_id /\ ~u.is_admin
    /\ \E u \in users : u.id = 2 /\ u.is_admin

(***************************************************************************)
(* Properties of the comments (SpecCommentText, SpecComments).             *)
(***************************************************************************)
\* No character of a tag is left in the text.
NoHtml(s) == \A i \in DOMAIN s : s[i] \notin {"<", ">"}

\* The texts whose content, once the HTML is stripped, is empty or longer
\* than 2000 characters.
RejectedContents ==
    {c \in CommentContents :
        Len(clean_content(c)) = 0 \/ Len(clean_content(c)) > 2000}

\* The step ended with the ValueError (a route: with an error answer) and
\* left the comments as they were.
RaisedNoChange ==
    /\ comments' = comments
    /\ \/ "result" \in DOMAIN lastOp' /\ lastOp'.result = "error"
       \/ "status" \in DOMAIN lastOp' /\ lastOp'.status \in {400, 500}

\* C12: comments are stored with the HTML stripped and are never empty or
\* over-long.  Every stored content has no tag character and a length of 1
\* to 2000; a create_comment or update_comment call whose stripped content
\* is empty or longer than 2000 raises ValueError and leaves the set of
\* comments and every comment's content as they were.
C12_CommentsSanitised ==
    /\ [](\A c \in comments :
            /\ NoHtml(c.content)
            /\ Len(c.content) >= 1
            /\ Len(c.content) <= 2000)
    /\ [][~RaisedNoChange =>
            \A content \in RejectedContents :
                /\ lastOp'.op = "create_comment" =>
                    ~CreateComment(1, 2, content, 0)
                /\ lastOp'.op = "update_comment" =>
                    \A id \in {c.id : c \in comments} :
                        ~UpdateComment(id, content)
                /\ lastOp'.op = "api_create_comment" =>
                    ~ApiCreateComment(2, 1, content)]_vars

\* An update has just been refused while the table holds a comment of 2000
\* characters and the comment "1 &lt; 2", stored for the text "1 < 2".
C12_Witness ==
    /\ lastOp = [op |-> "update_comment", result |-> "error"]
    /\ \E c \in comments : Len(c.content) = 2000
    /\ \E c \in comments :
        c.content = <<"1", " ", "&", "l", "t", ";", " ", "2">>

\* The flag of comment id in the table rows (the comment exists).
ApprovedIn(rows, id) == \A c \in get_comment_by_id(rows, id) : c.is_approved

\* The rows of the table other than comment id.
OtherComments(rows, id) == {c \in rows : c.id # id}

\* What the step of a moderation route may do: with an admin and an
\* existing comment, write the flag of that comment and nothing else;
\* otherwise (403 for a non-admin) change nothing.
ModerationStep(req, id, flag) ==
    IF UserById(users, req).is_admin /\ get_comment_by_id(comments, id) # {}
    THEN /\ lastOp'.status = 200
         /\ ApprovedIn(comments', id) = flag
         /\ get_comment_by_id(comments', id) # {}
         /\ OtherComments(comments', id) = OtherComments(comments, id)
    ELSE /\ comments' = comments
         /\ ~UserById(users, req).is_admin => lastOp'.status = 403

InputType(op, file) ==
    LET name == sanitize_filename(
            IF op = "upload_file" /\ file.filename = <<>>
            THEN <<"u", "n", "n", "a", "m", "e", "d">> ELSE file.filename)
        mime == IF op = "upload_file" /\ file.content_type = ""
                THEN guess_type(name) ELSE file.content_type
    IN IF get_media_type_from_mime(mime) # NoType
       THEN get_media_type_from_mime(mime)
       ELSE get_media_type_from_extension(name)

ExtensionDiffers(op, file) ==
    LET name == sanitize_filename(
            IF file.filename = <<>>
            THEN <<"u", "n", "n", "a", "m", "e", "d">> ELSE file.filename)
    IN /\ op = "upload_file"
       /\ get_media_type_from_extension(name) # NoType
       /\ get_media_type_from_extension(name) # InputType(op, file)

SizeLimit(media_type) ==
    CASE media_type = IMAGE -> max_image_size
      [] media_type = AUDIO -> max_audio_size
      [] media_type = VIDEO -> max_video_size

MustBeRefused(op, file) ==
    \/ InputType(op, file) = NoType
    \/ ExtensionDiffers(op, file)
    \/ file.size > SizeLimit(InputType(op, file))

RecordValid(m) ==
    /\ m.media_type \in {IMAGE, AUDIO, VIDEO}
    /\ m.media_type = IF get_media_type_from_mime(m.mime_type) # NoType
                      THEN get_media_type_from_mime(m.mime_type)
                      ELSE get_media_type_from_extension(m.original_name)
    /\ m.file_size <= SizeLimit(m.media_type)
    /\ Len(m.file_path) > Len(m.media_type) + 2
    /\ SubSeq(m.file_path, 1, Len(m.media_type) + 2)
          = m.media_type \o <<"s", "/">>
    /\ \A i \in (Len(m.media_type) + 3)..Len(m.file_path) :
          m.file_path[i] # "/"

\* C14: every media record has a type in {image, audio, video} derived from
\* the MIME type (else from the extension), a size within the limit of that
\* type and a path inside '<media_type>s/'; an input of undeterminable type,
\* over the limit, or (upload_file) with an extension of another type than
\* its MIME type raises ValueError, writes no file and creates no record.
C14_MediaValidated ==
    [][ /\ \A i \in DOMAIN media' : RecordValid(media'[i])
        /\ MustBeRefused(lastOp'.op, lastOp'.file)
              => /\ lastOp'.result = "ValueError"
                 /\ media' = media
                 /\ disk' = disk
        /\ lastOp'.result = "ok"
              => /\ Len(media') = Len(media) + 1
                 /\ disk' = disk \union {media'[Len(media')].file_path} ]_vars

C14_Witness ==
    /\ lastOp.op = "upload_file"
    /\ lastOp.file = File(NameMp3, "image/png", 1)
    /\ lastOp.result = "ValueError"
    /\ Len(media) = 1
    /\ media[1].media_type = AUDIO
    /\ media[1].file_size = max_audio_size
    /\ Cardinality(disk) = 1

(***************************************************************************)
(* Ownership of media.                                                      *)
(***************************************************************************)
UploaderOf(media_id) == (CHOOSE m \in media_get_by_id(media, media_id) : TRUE).uploader_id

PostIdOf(rows, media_id) == (CHOOSE m \in media_get_by_id(rows, media_id) : TRUE).post_id

Stored(media_id) == media_get_by_id(media, media_id) # {}

IsAdminUser(req) == \E u \in users : u.id = req /\ u.is_admin

\* C15: attach_to_post changes post_id only for the uploader and otherwise
\* returns None and changes nothing; through the attach and delete routes a
\* requester who is neither the uploader nor an admin gets 403 and the
\* record stays, while the uploader and every admin succeed.
C15_MediaOwnership ==
    [][ /\ lastOp'.op = "attach_to_post" /\ Stored(lastOp'.media_id)
           => IF UploaderOf(lastOp'.media_id) = lastOp'.req
              THEN /\ lastOp'.result = "media"
                   /\ PostIdOf(media', lastOp'.media_id) = lastOp'.post_id
              ELSE /\ lastOp'.result = "None"
                   /\ media' = media
        /\ lastOp'.op \in {"api_attach", "api_delete"} /\ Stored(lastOp'.media_id)
           => IF /\ UploaderOf(lastOp'.media_id) # lastOp'.req
                 /\ ~IsAdminUser(lastOp'.req)
              THEN /\ lastOp'.result = 403
                   /\ media' = media
                   /\ disk' = disk
              ELSE /\ lastOp'.result = 200
                   /\ lastOp'.op = "api_attach"
                        => PostIdOf(media', lastOp'.media_id) = lastOp'.post_id
                   /\ lastOp'.op = "api_delete"
                        => /\ media_get_by_id(media', lastOp'.media_id) = {}
                           /\ Len(media') = Len(media) - 1
                           /\ Cardinality(disk') = Cardinality(disk) - 1
        /\ lastOp'.op \in {"attach_to_post", "api_attach", "api_delete"}
           => \A i \in DOMAIN media :
                 media[i].id # lastOp'.media_id => \E j \in DOMAIN media' : media'[j] = media[i] ]_vars

\* User 3 is refused the deletion of user 2's attached upload.
C15_Witness ==
    /\ lastOp.op = "api_delete"
    /\ lastOp.req = 3
    /\ lastOp.result = 403
    /\ \E i \in DOMAIN media :
          /\ media[i].id = lastOp.media_id
          /\ media[i].uploader_id = 2
          /\ media[i].post_id = 1
    /\ Len(media) = 2

(***************************************************************************)
(* Notifications on publishing.                                             *)
(***************************************************************************)
\* The posts this step publishes: created as published, or edited to
\* published from another status.
PublishedNow ==
    {p \in posts' : /\ p.status = "published"
                    /\ \A q \in posts : q.id = p.id => q.status # "published"}

ShouldHear(user, post) ==
    /\ user.is_active
    /\ user.access_level >= get_required_access_level(post.visibility)
    /\ user.access_level >= REGISTERED

\* C16: when a post is published (publish_now in the bot, an admin creating
\* it as published, an admin's edit publishing it), a message goes to every
\* active user whose access level is at least the one the post's visibility
\* requires, and at least REGISTERED.
C16_PublishNotifies ==
    [][ \A p \in PublishedNow : \A u \in users :
           ShouldHear(u, p) => Notification(u, p) \in outbox' ]_vars

\* A public post has been published by the admin's form, two users should
\* have heard of it, and nothing was sent.
C16_Witness ==
    /\ lastOp.op = "admin_create_post"
    /\ \E p \in posts :
          /\ p.status = "published"
          /\ p.visibility = "public"
          /\ Cardinality({u \in users : ShouldHear(u, p)}) = 2
    /\ outbox = {}

(***************************************************************************)
(* Slugs.                                                                   *)
(***************************************************************************)
SlugsOf(rows) == {p.slug : p \in rows}

Numbered(base, n) == base \o <<"-">> \o DigitString(n)

\* The slug create_post must give a post of this title next to rows.
ExpectedSlug(rows, title, slug) ==
    IF slugify(title) \notin SlugsOf(rows)
    THEN slug = slugify(title)
    ELSE \E n \in 1..Cardinality(rows) :
            /\ slug = Numbered(slugify(title), n)
            /\ slug \notin SlugsOf(rows)
            /\ \A k \in 1..(n - 1) :
                  Numbered(slugify(title), k) \in SlugsOf(rows)

C19_OneSessionPerCode ==
    \A i \in DOMAIN authCodes : Cardinality(SessionsOfRow(sessions, i)) <= 1

\* Two requests read the same unused code, and both have logged in.
C19_Witness ==
    /\ lastOp.op = "verify"
    /\ lastOp.ok
    /\ Cardinality(SessionsOfRow(sessions, lastOp.row)) = 2
    /\ inflight = <<>>

(***************************************************************************)
(* The original recording of a voice post.                                  *)
(***************************************************************************)
\* Chat c's publish_now / publish_draft creates a post in this step.
CreatesPost(c) ==
    /\ fsm[c] = "waiting_for_publish_choice"
    /\ fsm'[c] = "none"
    /\ postCount' = postCount + 1

\* The recording stored for chat c (0: none).
StoredRecording(c) == get(fsmData[c], "voice_media_id", 0)

\* C20: the original recording is attached to a post only if the flow that
\* produced the post received it and the user answered 'yes'; a text-type
\* post, made after an abandoned voice flow was restarted with /newpost,
\* never gets that flow's recording.
C20_RecordingFromOwnFlow ==
    [][ \A c \in TelegramIds :
           /\ CreatesPost(c)
           /\ get(fsmData[c], "post_type", "text") = "text"
           /\ StoredRecording(c) \in DOMAIN media
           => media'[StoredRecording(c)].post_id
                 = media[StoredRecording(c)].post_id ]_vars

\* A text-type flow is about to publish while the recording of an earlier,
\* abandoned voice flow and its 'yes' are still stored.
C20_Witness ==
    /\ fsm[1] = "waiting_for_publish_choice"
    /\ get(fsmData[1], "post_type", "voice") = "text"
    /\ get(fsmData[1], "save_original_audio", FALSE)
    /\ StoredRecording(1) = 1
    /\ media[1].post_id = 0

(***************************************************************************)
(* Titles the title step accepts.                                           *)
(***************************************************************************)
\* The posts this step adds.
NewPosts == {p \in posts' : \A q \in posts : q.id # p.id}

\* C21: in waiting_for_publish_choice, publish_now or publish_draft by an
\* existing user creates exactly one post with the stored title, content
\* and visibility, published for publish_now and a draft for publish_draft,
\* whatever title the title step accepted.
C21_AcceptedTitleCreatesPost ==
    [][ \A c \in TelegramIds : \A d \in PublishData :
           /\ fsm[c] = "waiting_for_publish_choice"
           /\ fsm'[c] = "none"
           /\ get_user_by_telegram_id(c) # {}
           /\ process_publish_choice(c, d)
           => /\ Cardinality(NewPosts) = 1
              /\ \A p \in NewPosts :
                    /\ p.title = fsmData[c].title
                    /\ p.content_md = fsmData[c].content
                    /\ p.visibility = fsmData[c].visibility
                    /\ p.status = IF d = "publish_now" THEN "published"
                                  ELSE "draft" ]_vars

\* The flow has reached the publish step with a title of more than
\* MAX_TITLE_LENGTH characters that the title step accepted.
C21_Witness ==
    /\ fsm[1] = "waiting_for_publish_choice"
    /\ get_user_by_telegram_id(1) # {}
    /\ Len(fsmData[1].title) > MAX_TITLE_LENGTH
    /\ Len(fsmData[1].title) <= TitleMaxLength
    /\ posts = {}

(***************************************************************************)
(* One post per flow.                                                       *)
(***************************************************************************)
\* Task k ends in this step.
Ends(k) ==
    /\ inflight[k].pc = "cleared"
    /\ inflight' = RemoveAt(inflight, k)

\* The flow task k belongs to has its post already.
FlowHasPost(k) == postCount > inflight[k].base

\* C22: when the publish button is pressed twice for one flow and both
\* callbacks pass the waiting_for_publish_choice filter before either
\* clears the state, one post is created and the other callback is
\* answered as a stale session.
C22_OnePostPerFlow ==
    [][ \A k \in DOMAIN inflight :
           Ends(k) /\ FlowHasPost(k)
           => /\ posts' = posts
              /\ lastOp'.op = "handle_stale_callback" ]_vars

\* One press of the flow has created the post while the other, past the
\* filter, still holds the flow's data.
C22_Witness ==
    \E k \in DOMAIN inflight :
       /\ inflight[k].pc = "cleared"
       /\ "title" \in DOMAIN inflight[k].d
       /\ postCount = inflight[k].base + 1
       /\ fsm[inflight[k].chat] = "none"

====
